---- MODULE Spec2Model ----
(***************************************************************************)
(* The website crawler of webappchatbot and the entry points that start    *)
(* it: services/crawling (crawlWebsite, crawlAndIndexWebsite),             *)
(* routes/website (POST /crawl, GET and POST /auto-crawl) and the startup  *)
(* auto-crawl timer of startup/initialize.                                 *)
(*                                                                         *)
(* Node runs one callback to completion before the next one starts, so an  *)
(* action of this module is the code that runs between two awaits on real  *)
(* I/O (an HTTP GET, a setTimeout, an embedding call).  The continuation   *)
(* of an await on an already finished async function is a microtask and    *)
(* belongs to the same action.                                             *)
(***************************************************************************)
EXTENDS Naturals, Sequences, FiniteSets, TLC

\* ------------------------------------------------------------------ bounds

\* Number of crawl-and-index invocations started over HTTP in one behaviour.
MaxInvocations == 1

\* Largest maxPages a POST /crawl body carries in the model.
MaxPagesOpt == 2

\* Number of documents uploaded in one behaviour.
MaxUploads == 1

\* Calls of initializeEmbedder and generateEmbedding in one process.
MaxCallers == 2

\* Chunk records in the index when a question is asked.
MaxChunks == 3

\* The largest RAG_TOP_K the process is configured with.
MaxTopK == 3

\* Vectors given to cosineSimilarity: their length and their components.
MaxDim == 2

MaxComponent == 1

\* Texts given to chunkText: their length in characters, and the chunk size.
MaxTextLen == 5

MaxChunkSize == 4

\* Calls of initializeLocalModel in one process.
MaxModelCalls == 2

\* Pages handed to processWebsitePages, and chunks of one page.
MaxProcessPages == 2

MaxPageChunks == 3

\* ------------------------------------------------------- program constants

websiteMaxPages == 50

websiteCrawlDelay == 1000

\* WEBSITE_AUTO_CRAWL=true, as the deployment guides set it.
websiteAutoCrawl == TRUE

\* ---------------------------------------------------------------- the site

SiteRoot == "http://site"

SiteHome == "http://site/"

PageA == "http://site/a"

\* A file that only the page /a links to.
PageB == "http://site/b"

RobotsTxtUrl == "http://site/robots.txt"

External == "http://other/"

FtpUrl == "ftp://site/"

Garbage == "not a url"

NoUrl == ""

\* new URL(u) succeeds
IsUrl(u) == u \in {SiteRoot, SiteHome, PageA, PageB, RobotsTxtUrl, External, FtpUrl}

\* new URL(u).href : the serialised URL; an empty path becomes "/".
Href(u) == IF u = SiteRoot THEN SiteHome ELSE u

\* new URL(u).protocol
Protocol(u) == IF u = FtpUrl THEN "ftp:" ELSE "http:"

\* new URL(u).hostname
Hostname(u) == IF u = External THEN "other" ELSE "site"

\* new URL(href, currentUrl).href for the href attributes the site uses.
Resolve(href, currentUrl) ==
    CASE href = "/" -> (IF Hostname(currentUrl) = "site" THEN SiteHome ELSE External)
      [] href = "/a" -> PageA
      [] href = "/b" -> PageB
      [] href = "/robots.txt" -> RobotsTxtUrl
      [] href = "http://other/" -> External
      [] OTHER -> href

\* The a[href] attributes of the document served at url, in document order.
Anchors(url) ==
    CASE url \in {SiteRoot, SiteHome} -> <<"/a", "/", "http://other/", "/a", "/robots.txt">>
      [] url = PageA -> <<"/", "/robots.txt", "/b">>
      [] OTHER -> <<>>

\* What a GET of url can answer: an HTML page with more than 100 characters
\* of content, an HTML page with less, a non-HTML response, or a failure
\* (network error, timeout, HTTP error status).
Outcomes(url) ==
    CASE url = SiteRoot -> {"html", "error"}
      [] url = SiteHome -> {"html", "other"}
      [] url = PageA -> {"html", "thin", "error"}
      [] url = PageB -> {"other"}
      [] OTHER -> {"other", "error"}

\* robotsTxt.isAllowed(url, userAgent) for the robots.txt the site serves
\* ("Disallow: /a"); robots-parser answers undefined for another host.
isAllowed(url) == Hostname(url) = "site" /\ url # PageA

\* detectBaseUrl() outside Azure App Service: http://localhost:<port>
detectBaseUrl == SiteRoot

\* ------------------------------------------------------------------- state

\* Invocation 0 is the one the startup timer starts; 1..MaxInvocations are
\* started by the HTTP routes.
TimerTask == 0

HttpTasks == 1..MaxInvocations

Tasks == {TimerTask} \cup HttpTasks

VARIABLES
    websiteCrawlData,    \* crawling.js: {lastCrawl, crawlInProgress, crawledPages, errors}
    documentEmbeddings,  \* ragService.js: the chunk records of the index
    documentStore,       \* ragService.js: one entry per indexed document
    embedder,            \* ragService.js: TRUE when the embedder is loaded
    timer,               \* the setTimeout of initializeServices: "armed" or "fired"
    inv,                 \* per invocation of crawlAndIndexWebsite: its locals and where it waits
    loader,              \* ragService.js, localModels.js: the embedder and the calls that load it
    call,                \* one call of a function of textUtils.js or ragService.js: arguments, result
    localModels          \* localModels.js: the local model and the calls that load it

crawlVars == <<websiteCrawlData, documentEmbeddings, documentStore, embedder, timer, inv>>

vars == <<websiteCrawlData, documentEmbeddings, documentStore, embedder, timer, inv,
          loader, call, localModels>>

\* lastCrawl is <<>> for null and <<t>> for the timestamp invocation t took
\* when its crawl loop ended.
NoStamp == <<>>

Stamp(t) == <<t>>

\* The callers of initializeEmbedder and generateEmbedding.
Callers == 1..MaxCallers

\* A caller that has not called yet. fn is the function it calls, pc where it
\* waits, result the embedder it ended up with (0: none). History kept for the
\* properties: loaded, it called pipeline(); during, the callers that were
\* waiting for a load when it called; late, it called after an initialisation
\* had failed.
IdleCaller ==
    [pc |-> "idle", fn |-> "none", result |-> 0, loaded |-> FALSE,
     during |-> {}, late |-> FALSE]

\* The module state of ragService.js and localModels.js when they are loaded:
\* embedder is 0 for null and k for the pipeline the k-th load returned.
\* History kept for the properties: loads, the calls of pipeline() so far;
\* failed, an initialisation has failed.
NotLoading ==
    [isAzureAppService |-> FALSE, embedder |-> 0, transformersAvailable |-> FALSE,
     loads |-> 0, failed |-> FALSE,
     callers |-> [c \in Callers |-> IdleCaller]]

\* No function call is being evaluated.
NoCall == [op |-> "none"]

\* The calls of initializeLocalModel.
ModelCallers == 1..MaxModelCalls

\* A call of initializeLocalModel that has not been made. modelName is its
\* argument, models the list it walks, next the position in it of the model
\* whose pipeline it awaits, result what it returned. History kept for the
\* properties: tried, the models whose pipeline it has requested, in order;
\* found, the model that was loaded when it was called.
IdleModelCall ==
    [pc |-> "idle", modelName |-> "none", models |-> <<>>, next |-> 0,
     result |-> FALSE, tried |-> <<>>, found |-> "none"]

\* The module state of localModels.js when it is loaded: localModel is "none"
\* for null and else the name of the model whose pipeline it holds;
\* LOCAL_MODEL_NAME is the variable of process.env.
NoLocalModel ==
    [localModel |-> "none", modelLoading |-> FALSE, modelError |-> "none",
     LOCAL_MODEL_NAME |-> "unset",
     callers |-> [c \in ModelCallers |-> IdleModelCall]]

\* The locals of an invocation that has not been started.
IdleTask ==
    [pc |-> "idle", baseUrl |-> NoUrl, maxPages |-> 0, respectRobots |-> FALSE,
     includeExternalLinks |-> FALSE, crawlDelay |-> 0,
     visitedUrls |-> {}, urlsToVisit |-> <<>>, crawledPages |-> <<>>,
     robotsTxt |-> FALSE, currentUrl |-> NoUrl,
     \* the array read at line 249, and whether it still is the array that
     \* the documentEmbeddings variable of ragService refers to
     snapshot |-> <<>>, aliased |-> FALSE,
     \* history kept for the properties: the page GETs issued, in order; the
     \* delays waited since the last page GET returned; the GETs of robots.txt
     \* issued for its rules; the URLs pushed onto urlsToVisit, in order.
     fetched |-> <<>>, waited |-> 0, robotsLoads |-> 0, enqueued |-> <<>>]

Init ==
    /\ websiteCrawlData = [lastCrawl |-> NoStamp, crawlInProgress |-> FALSE,
                           crawledPages |-> 0, errors |-> <<>>]
    /\ documentEmbeddings = <<>>
    /\ documentStore = <<>>
    /\ embedder \in BOOLEAN
    /\ timer = IF websiteAutoCrawl THEN "armed" ELSE "off"
    /\ inv = [t \in Tasks |-> IdleTask]
    /\ localModels = NoLocalModel
    /\ loader = NotLoading
    /\ call = NoCall

\* ------------------------------------------------------------ link extraction

\* [...new Set(links)] : first occurrences, in order.
RECURSIVE Dedupe(_)
Dedupe(s) ==
    IF s = <<>> THEN <<>>
    ELSE LET init == Dedupe(SubSeq(s, 1, Len(s) - 1))
             last == s[Len(s)]
         IN  IF \E i \in 1..Len(init) : init[i] = last THEN init ELSE Append(init, last)

\* Mutant of LinkKept: the hostname is not compared.
LinkKeptAnyHost(absoluteUrl, baseUrl, includeExternalLinks) ==
    Protocol(absoluteUrl) \in {"http:", "https:"}

\* The filters of extractLinksFromPage on one resolved URL.
LinkKept(absoluteUrl, baseUrl, includeExternalLinks) ==
    /\ Protocol(absoluteUrl) \in {"http:", "https:"}
    /\ includeExternalLinks \/ Hostname(absoluteUrl) = Hostname(baseUrl)

extractLinksFromPage(currentUrl, baseUrl, includeExternalLinks) ==
    LET hrefs == Anchors(currentUrl)
        abs == [i \in 1..Len(hrefs) |-> Resolve(hrefs[i], currentUrl)]
        Kept(u) == LinkKept(u, baseUrl, includeExternalLinks)
    IN  Dedupe(SelectSeq(abs, Kept))

\* The test of the forEach at crawlWebsite line 91.
ShouldEnqueue(visitedUrls, urlsToVisit, url) ==
    /\ url \notin visitedUrls
    /\ ~ \E i \in 1..Len(urlsToVisit) : urlsToVisit[i] = url

\* The URLs of newUrls, which holds none twice, that pass the test.
Pushed(urlsToVisit, visitedUrls, newUrls) ==
    SelectSeq(newUrls, LAMBDA url : ShouldEnqueue(visitedUrls, urlsToVisit, url))

\* Mutant of EnqueueAll: the new URLs are put in front of the others.
EnqueueAllInFront(urlsToVisit, visitedUrls, newUrls) ==
    Pushed(urlsToVisit, visitedUrls, newUrls) \o urlsToVisit

RECURSIVE EnqueueAll(_, _, _)
EnqueueAll(urlsToVisit, visitedUrls, newUrls) ==
    IF newUrls = <<>> THEN urlsToVisit
    ELSE EnqueueAll(
            IF ShouldEnqueue(visitedUrls, urlsToVisit, Head(newUrls))
            THEN Append(urlsToVisit, Head(newUrls)) ELSE urlsToVisit,
            visitedUrls, Tail(newUrls))

\* ---------------------------------------------------------------- crawlWebsite

\* visitedUrls.add(currentUrl)
MarkVisited(visitedUrls, url) == visitedUrls \cup {url}

\* Mutant of RobotsSkips: the rules are never consulted.
RobotsNeverSkips(robotsTxt, url) == FALSE

\* The robots test of crawlWebsite line 60: the URL is skipped.
RobotsSkips(robotsTxt, url) == robotsTxt /\ ~ isAllowed(url)

\* The while condition of crawlWebsite line 53.
LoopGoesOn(urlsToVisit, crawledPages, maxPages) ==
    Len(urlsToVisit) > 0 /\ Len(crawledPages) < maxPages

\* The crawl loop from its head to the next await: URLs already visited or
\* disallowed by robots.txt are passed over in the same turn.  The result
\* waits for the GET of currentUrl (pc "fetch") or has left the loop
\* (pc "exit").
RECURSIVE CrawlLoop(_)
CrawlLoop(r) ==
    IF ~ LoopGoesOn(r.urlsToVisit, r.crawledPages, r.maxPages)
    THEN [r EXCEPT !.pc = "exit"]
    ELSE LET currentUrl == Head(r.urlsToVisit)
             shifted == [r EXCEPT !.urlsToVisit = Tail(r.urlsToVisit)]
             marked == [shifted EXCEPT !.visitedUrls = MarkVisited(r.visitedUrls, currentUrl)]
         IN  IF currentUrl \in r.visitedUrls THEN CrawlLoop(shifted)
             ELSE IF RobotsSkips(r.robotsTxt, currentUrl) THEN CrawlLoop(marked)
             ELSE [marked EXCEPT !.pc = "fetch", !.currentUrl = currentUrl,
                                 !.fetched = Append(r.fetched, currentUrl)]

\* The locals after a response arrived (crawlWebsite lines 75-96); the
\* result still stands before the delay.
AfterResponse(r, outcome) ==
    LET isHtml == outcome \in {"html", "thin"}
        pages == IF outcome = "html" THEN Append(r.crawledPages, r.currentUrl)
                 ELSE r.crawledPages
        newUrls == extractLinksFromPage(r.currentUrl, r.baseUrl, r.includeExternalLinks)
    IN  [r EXCEPT !.crawledPages = pages,
                  !.urlsToVisit = IF isHtml /\ Len(pages) < r.maxPages
                                  THEN EnqueueAll(r.urlsToVisit, r.visitedUrls, newUrls)
                                  ELSE r.urlsToVisit,
                  !.enqueued = IF isHtml /\ Len(pages) < r.maxPages
                               THEN @ \o Pushed(r.urlsToVisit, r.visitedUrls, newUrls)
                               ELSE @,
                  !.waited = 0]

\* websiteCrawlData after a response: crawledPages++ for a substantial page.
CountPage(wcd, outcome) ==
    IF outcome = "html" THEN [wcd EXCEPT !.crawledPages = @ + 1] ELSE wcd

\* The catch of crawlWebsite lines 103-109.
RecordError(wcd, url) ==
    [wcd EXCEPT !.errors = Append(@, [url |-> url, error |-> "request failed"])]

\* Where the turn goes after a response: into the delay when crawlDelay > 0
\* (lines 99-101), else straight back to the loop head.
AfterSuccess(r) ==
    IF r.crawlDelay > 0 THEN [r EXCEPT !.pc = "delay"] ELSE CrawlLoop(r)

\* Mutant of AfterError: the failure ends the crawl.
AfterErrorEndsCrawl(r) == [r EXCEPT !.pc = "exit", !.waited = 0]

\* Where the turn goes after the catch block: the loop head.
AfterError(r) == CrawlLoop([r EXCEPT !.waited = 0])

\* ------------------------------------------------------- crawlAndIndexWebsite

\* What is kept of the locals once the invocation has settled: maxPages, the
\* pages crawlWebsite returned and the frontier it left.
Returned(r, pc) ==
    [IdleTask EXCEPT !.pc = pc, !.maxPages = r.maxPages,
                     !.crawledPages = r.crawledPages, !.urlsToVisit = r.urlsToVisit]

\* Mutant of WebsiteChunks: every record carries an embedding.
WebsiteChunksEmbedded(pages, withEmbedding) ==
    [i \in 1..Len(pages) |->
        [type |-> "website", url |-> pages[i], embedding |-> TRUE,
         chunkIndex |-> 0, pageIndex |-> i - 1]]

\* One chunk record per page: the pages of the site are shorter than one
\* chunk of 500 words.
WebsiteChunks(pages, withEmbedding) ==
    [i \in 1..Len(pages) |->
        [type |-> "website", url |-> pages[i], embedding |-> withEmbedding,
         chunkIndex |-> 0, pageIndex |-> i - 1]]

IsNotWebsite(d) == d.type # "website"

\* Mutant of ReplaceWebsite: the earlier website chunks are purged and the
\* new ones are not inserted in the same turn.
PurgeWithoutInsert(index, websiteChunks) == SelectSeq(index, IsNotWebsite)

\* The index write of crawlAndIndexWebsite (lines 256-293 and 317-321):
\* filter out the website chunks, push the new ones, setDocumentEmbeddings.
ReplaceWebsite(index, websiteChunks) == SelectSeq(index, IsNotWebsite) \o websiteChunks

websiteDoc(r, chunks) ==
    [type |-> "website", chunks |-> Len(chunks), pages |-> Len(r.crawledPages),
     baseUrl |-> r.baseUrl]

\* Mutant of CrawlExit: the flag is left set.
CrawlExitKeepsFlag(wcd, t) == [wcd EXCEPT !.lastCrawl = Stamp(t)]

\* crawlWebsite lines 112-113.
CrawlExit(wcd, t) == [wcd EXCEPT !.crawlInProgress = FALSE, !.lastCrawl = Stamp(t)]

\* setDocumentEmbeddings(array) makes the index another array: the arrays
\* that invocations read earlier are no longer the index.
Unaliased(invs) == [u \in Tasks |-> [invs[u] EXCEPT !.aliased = FALSE]]

\* The end of a turn of invocation t, whose locals are now r and which
\* leaves websiteCrawlData as wcd.  When the loop was left in this turn,
\* crawlWebsite returns and crawlAndIndexWebsite goes on (lines 243-338):
\* it returns at once without pages, indexes in the same turn without
\* embedder, and otherwise awaits processWebsitePages holding the index it
\* read at line 249.
Settle(t, r, wcd) ==
    IF r.pc # "exit"
    THEN /\ inv' = [inv EXCEPT ![t] = r]
         /\ websiteCrawlData' = wcd
         /\ UNCHANGED <<documentEmbeddings, documentStore>>
    ELSE /\ websiteCrawlData' = CrawlExit(wcd, t)
         /\ IF Len(r.crawledPages) = 0
            THEN /\ inv' = [inv EXCEPT ![t] = Returned(r, "done")]
                 /\ UNCHANGED <<documentEmbeddings, documentStore>>
            ELSE IF ~ embedder
            THEN LET websiteChunks == WebsiteChunks(r.crawledPages, FALSE)
                 IN  /\ documentEmbeddings' = ReplaceWebsite(documentEmbeddings, websiteChunks)
                     /\ documentStore' = Append(documentStore, websiteDoc(r, websiteChunks))
                     /\ inv' = [Unaliased(inv) EXCEPT ![t] = Returned(r, "done")]
            ELSE /\ inv' = [inv EXCEPT ![t] =
                                [r EXCEPT !.pc = "embed", !.snapshot = documentEmbeddings,
                                          !.aliased = TRUE]]
                 /\ UNCHANGED <<documentEmbeddings, documentStore>>

\* crawlWebsite lines 32-38: the entry of a crawl.
CrawlEntry(wcd) == [wcd EXCEPT !.crawlInProgress = TRUE, !.errors = <<>>, !.crawledPages = 0]

\* The URL validation of crawlAndIndexWebsite lines 235-238 passes.
ValidTarget(targetUrl) == IsUrl(targetUrl) /\ Protocol(targetUrl) \in {"http:", "https:"}

\* crawlAndIndexWebsite(baseUrl, options) up to its first await on I/O.
StartInvocation(t, baseUrl, options) ==
    LET targetUrl == IF baseUrl = NoUrl THEN detectBaseUrl ELSE baseUrl
        r == [IdleTask EXCEPT !.baseUrl = targetUrl,
                              !.maxPages = options.maxPages,
                              !.respectRobots = options.respectRobots,
                              !.includeExternalLinks = options.includeExternalLinks,
                              !.crawlDelay = options.crawlDelay,
                              !.urlsToVisit = <<targetUrl>>,
                              !.enqueued = <<targetUrl>>]
    IN  IF ~ ValidTarget(targetUrl)
        THEN \* the catch of lines 340-344
             /\ websiteCrawlData' = [websiteCrawlData EXCEPT !.crawlInProgress = FALSE]
             /\ inv' = [inv EXCEPT ![t] = Returned(r, "failed")]
             /\ UNCHANGED <<documentEmbeddings, documentStore>>
        ELSE IF options.respectRobots
        THEN Settle(t, [r EXCEPT !.pc = "robots", !.robotsLoads = 1],
                    CrawlEntry(websiteCrawlData))
        ELSE Settle(t, CrawlLoop(r), CrawlEntry(websiteCrawlData))

\* ------------------------------------------------------------- entry points

\* The options of the auto-crawl routes and of the startup timer.
autoCrawlOptions ==
    [maxPages |-> websiteMaxPages, respectRobots |-> FALSE,
     includeExternalLinks |-> FALSE, crawlDelay |-> websiteCrawlDelay]

\* The request bodies of POST /crawl: baseUrl absent, unparsable, of another
\* protocol, or the site with and without its trailing slash.
Bodies ==
    [baseUrl : {SiteRoot, SiteHome},
     maxPages : 0..MaxPagesOpt,
     respectRobots : BOOLEAN,
     includeExternalLinks : {FALSE},
     crawlDelay : {0, websiteCrawlDelay}]
    \cup
    [baseUrl : {NoUrl, Garbage, FtpUrl},
     maxPages : {MaxPagesOpt},
     respectRobots : {TRUE},
     includeExternalLinks : {FALSE},
     crawlDelay : {websiteCrawlDelay}]

IsFree(t) == inv[t].pc = "idle"

\* The invocation an accepted HTTP request starts: the unused one of least number.
FreeSlot == CHOOSE t \in HttpTasks : IsFree(t) /\ \A u \in HttpTasks : IsFree(u) => t <= u

\* The test the routes make before they start a crawl.
AlreadyInProgress(wcd) == wcd.crawlInProgress

\* Mutant of PostCrawlStatus: the URL is validated before the flag is tested.
PostCrawlStatusValidatesFirst(body) ==
    IF body.baseUrl = NoUrl THEN "400 Base URL is required"
    ELSE IF ~ IsUrl(body.baseUrl) THEN "400 Invalid URL"
    ELSE IF AlreadyInProgress(websiteCrawlData) THEN "409 Crawl already in progress"
    ELSE "200 success: true"

\* What router.post('/crawl') answers: the early returns of lines 22-45, or
\* the response of line 59.
PostCrawlStatus(body) ==
    IF body.baseUrl = NoUrl THEN "400 Base URL is required"
    ELSE IF AlreadyInProgress(websiteCrawlData) THEN "409 Crawl already in progress"
    ELSE IF ~ IsUrl(body.baseUrl) THEN "400 Invalid URL"
    ELSE "200 success: true"

\* router.post('/crawl'): a request that is turned away changes nothing.
PostCrawl(body) ==
    IF PostCrawlStatus(body) = "200 success: true"
    THEN /\ \E t \in HttpTasks : IsFree(t)
         /\ StartInvocation(FreeSlot, body.baseUrl, body)
         /\ UNCHANGED <<embedder, timer, loader, call, localModels>>
    ELSE UNCHANGED vars

\* What the auto-crawl routes answer: the early return of lines 84-92
\* (128-136), or the response of line 106 (150).
AutoCrawlStatus ==
    IF AlreadyInProgress(websiteCrawlData) THEN "200 success: false"
    ELSE "200 success: true"

\* The handler the two auto-crawl routes share, line for line.
AutoCrawl ==
    IF AutoCrawlStatus = "200 success: true"
    THEN /\ \E t \in HttpTasks : IsFree(t)
         /\ StartInvocation(FreeSlot, detectBaseUrl, autoCrawlOptions)
         /\ UNCHANGED <<embedder, timer, loader, call, localModels>>
    ELSE UNCHANGED vars

\* router.post('/auto-crawl')
PostAutoCrawl == AutoCrawl

\* router.get('/auto-crawl')
GetAutoCrawl == AutoCrawl

\* The setTimeout callback of initializeServices (lines 92-108).
TimerFires ==
    /\ timer = "armed"
    /\ timer' = "fired"
    /\ StartInvocation(TimerTask, detectBaseUrl, autoCrawlOptions)
    /\ UNCHANGED <<embedder, loader, call, localModels>>

\* ------------------------------------------------------------ continuations

\* The GET of robots.txt settles (crawlWebsite lines 45-50), and the loop starts.
RobotsReturns(t, loaded) ==
    /\ inv[t].pc = "robots"
    /\ Settle(t, CrawlLoop([inv[t] EXCEPT !.robotsTxt = loaded]), websiteCrawlData)
    /\ UNCHANGED <<embedder, timer, loader, call, localModels>>

\* The GET of currentUrl settles.
FetchReturns(t, outcome) ==
    /\ inv[t].pc = "fetch"
    /\ outcome \in Outcomes(inv[t].currentUrl)
    /\ IF outcome = "error"
       THEN Settle(t, AfterError(inv[t]), RecordError(websiteCrawlData, inv[t].currentUrl))
       ELSE Settle(t, AfterSuccess(AfterResponse(inv[t], outcome)),
                   CountPage(websiteCrawlData, outcome))
    /\ UNCHANGED <<embedder, timer, loader, call, localModels>>

\* The setTimeout of the crawl delay fires.
DelayReturns(t) ==
    /\ inv[t].pc = "delay"
    /\ Settle(t, CrawlLoop([inv[t] EXCEPT !.waited = @ + 1]), websiteCrawlData)
    /\ UNCHANGED <<embedder, timer, loader, call, localModels>>

\* processWebsitePages settles (crawlAndIndexWebsite lines 314-337).
EmbedReturns(t) ==
    /\ inv[t].pc = "embed"
    /\ LET websiteChunks == WebsiteChunks(inv[t].crawledPages, TRUE)
       IN  /\ documentEmbeddings' = ReplaceWebsite(inv[t].snapshot, websiteChunks)
           /\ documentStore' = Append(documentStore, websiteDoc(inv[t], websiteChunks))
    /\ inv' = [Unaliased(inv) EXCEPT ![t] = Returned(inv[t], "done")]
    /\ UNCHANGED <<websiteCrawlData, embedder, timer, loader, call, localModels>>

\* ----------------------------------------------------------- document upload

\* The chunk record of the n-th uploaded document.
DocumentChunk(n) ==
    [type |-> "document", url |-> NoUrl, embedding |-> embedder,
     chunkIndex |-> 0, pageIndex |-> n]

IsDocumentEntry(d) == d.type = "document"

\* A document is uploaded and indexed: its chunk is pushed onto the index
\* array, which an invocation that read that same array sees too, and its
\* entry onto the document store.
UploadDocument ==
    LET n == Len(SelectSeq(documentStore, IsDocumentEntry)) + 1
    IN  /\ n <= MaxUploads
        /\ documentEmbeddings' = Append(documentEmbeddings, DocumentChunk(n))
        /\ documentStore' = Append(documentStore,
                                   [type |-> "document", chunks |-> 1, pages |-> 0,
                                    baseUrl |-> NoUrl])
        /\ inv' = [t \in Tasks |->
                      IF inv[t].pc = "embed" /\ inv[t].aliased
                      THEN [inv[t] EXCEPT !.snapshot = Append(@, DocumentChunk(n))]
                      ELSE inv[t]]
        /\ UNCHANGED <<websiteCrawlData, embedder, timer, loader, call, localModels>>

\* The steps other than the startup timer's.
Serve ==
    \/ \E body \in Bodies : PostCrawl(body)
    \/ PostAutoCrawl
    \/ GetAutoCrawl
    \/ \E t \in Tasks, loaded \in BOOLEAN : RobotsReturns(t, loaded)
    \/ \E t \in Tasks, outcome \in {"html", "thin", "other", "error"} : FetchReturns(t, outcome)
    \/ \E t \in Tasks : DelayReturns(t)
    \/ \E t \in Tasks : EmbedReturns(t)

Next == Serve \/ TimerFires

Spec == Init /\ [][Next]_vars

\* The server started with WEBSITE_AUTO_CRAWL unset: no timer is armed.
InitNoAutoCrawl ==
    /\ websiteCrawlData = [lastCrawl |-> NoStamp, crawlInProgress |-> FALSE,
                           crawledPages |-> 0, errors |-> <<>>]
    /\ documentEmbeddings = <<>>
    /\ documentStore = <<>>
    /\ embedder \in BOOLEAN
    /\ timer = "off"
    /\ inv = [t \in Tasks |-> IdleTask]
    /\ localModels = NoLocalModel
    /\ loader = NotLoading
    /\ call = NoCall

SpecNoAutoCrawl == InitNoAutoCrawl /\ [][Serve]_vars

\* The pages the startup auto-crawl returns and the URLs it records in
\* errors, by the outcomes of its GETs of the seed, /a, / and /robots.txt:
\* the seed is requested first and, when it is HTML, links to the others.
AutoCrawlPages(seed, a, home) ==
    IF seed # "html" THEN <<>>
    ELSE <<SiteRoot>> \o (IF a = "html" THEN <<PageA>> ELSE <<>>)
                     \o (IF home = "html" THEN <<SiteHome>> ELSE <<>>)

AutoCrawlErrors(seed, a, robots) ==
    LET failed == IF seed # "html" THEN <<SiteRoot>>
                  ELSE (IF a = "error" THEN <<PageA>> ELSE <<>>)
                       \o (IF robots = "error" THEN <<RobotsTxtUrl>> ELSE <<>>)
    IN  [i \in 1..Len(failed) |-> [url |-> failed[i], error |-> "request failed"]]

\* The server after its startup auto-crawl has run to its end and indexed
\* what it found, no other crawl having been requested meanwhile.
InitAfterAutoCrawl ==
    \E seed \in Outcomes(SiteRoot), a \in Outcomes(PageA),
       home \in Outcomes(SiteHome), robots \in Outcomes(RobotsTxtUrl) :
        LET pages == AutoCrawlPages(seed, a, home)
            r == [IdleTask EXCEPT !.baseUrl = detectBaseUrl,
                                  !.maxPages = autoCrawlOptions.maxPages,
                                  !.crawledPages = pages]
        IN  /\ embedder \in BOOLEAN
            /\ timer = "fired"
            /\ websiteCrawlData =
                   [lastCrawl |-> Stamp(TimerTask), crawlInProgress |-> FALSE,
                    crawledPages |-> Len(pages),
                    errors |-> AutoCrawlErrors(seed, a, robots)]
            /\ documentEmbeddings = WebsiteChunks(pages, embedder)
            /\ documentStore =
                   IF pages = <<>> THEN <<>>
                   ELSE <<websiteDoc(r, WebsiteChunks(pages, embedder))>>
            /\ inv = [t \in Tasks |->
                         IF t = TimerTask THEN Returned(r, "done") ELSE IdleTask]
            /\ loader = NotLoading
            /\ localModels = NoLocalModel
            /\ call = NoCall

\* Crawls requested over HTTP after the startup auto-crawl.
SpecRecrawl == InitAfterAutoCrawl /\ [][Serve]_vars

\* The server with documents being uploaded while it crawls.
SpecUploads == Init /\ [][Next \/ UploadDocument]_vars

\* A request, timer or embedding call that an invocation awaits settles.
IoReturns ==
    \E t \in Tasks :
        \/ \E loaded \in BOOLEAN : RobotsReturns(t, loaded)
        \/ \E outcome \in {"html", "thin", "other", "error"} : FetchReturns(t, outcome)
        \/ DelayReturns(t)
        \/ EmbedReturns(t)

\* The event loop delivers a pending completion: the axios requests time out
\* after 5 s and 10 s, the delay timer fires, the embedding calls return.
Fairness == WF_vars(IoReturns)

FairSpecNoAutoCrawl == SpecNoAutoCrawl /\ Fairness

\* ------------------------------------------------------- loading the embedder

\* initializeEmbedder hands value e to caller c (lines 15, 18, 26, 35, 38). A
\* caller of generateEmbedding then reads the module's embedder: it throws when
\* there is none (line 48) and embeds with it otherwise (line 51).
Return(ld, c, e) ==
    [ld EXCEPT !.callers[c].pc = "done",
               !.callers[c].result =
                   IF ld.callers[c].fn = "initializeEmbedder" THEN e ELSE ld.embedder]

\* The guard of initializeEmbedder, line 18: the calls that go on to load.
PassesGuard(ld) == ld.embedder = 0

\* The callers that wait for Transformers.js or for pipeline().
InFlight(ld) == {d \in Callers : ld.callers[d].pc \in {"transformers", "pipeline"}}

\* initializeEmbedder gives up, lines 24-27 and 36-39: it logs and returns
\* null, and records nothing in the module.
FailureLogged(ld) == [ld EXCEPT !.failed = TRUE]

\* initializeEmbedder lines 30-33: pipeline() is called and awaited.
StartLoad(ld, c) ==
    [ld EXCEPT !.loads = @ + 1,
               !.callers[c].pc = "pipeline",
               !.callers[c].loaded = TRUE]

\* Caller c calls fn: generateEmbedding lines 43-45, initializeEmbedder lines
\* 13-23, up to the first await that leaves the process.
Enter(ld, c, fn) ==
    LET called == [ld EXCEPT !.callers[c] =
                       [IdleCaller EXCEPT !.fn = fn,
                                          !.during = InFlight(ld),
                                          !.late = ld.failed]]
    IN  IF fn = "generateEmbedding" /\ ld.embedder # 0 THEN Return(called, c, ld.embedder)
        ELSE IF ld.isAzureAppService THEN Return(called, c, 0)
        ELSE IF ~ PassesGuard(ld) THEN Return(called, c, ld.embedder)
        ELSE IF ~ ld.transformersAvailable
             THEN [called EXCEPT !.callers[c].pc = "transformers"]
        ELSE StartLoad(called, c)

CallEmbedder(c, fn) ==
    /\ loader.callers[c].pc = "idle"
    /\ loader' = Enter(loader, c, fn)
    /\ UNCHANGED <<crawlVars, call, localModels>>

\* The import of conditionallyLoadTransformers settles (localModels.js lines
\* 19-29); initializeEmbedder goes on at line 23.
TransformersReturns(c, loaded) ==
    /\ loader.callers[c].pc = "transformers"
    /\ loader' = IF loaded
                 THEN StartLoad([loader EXCEPT !.transformersAvailable = TRUE], c)
                 ELSE Return(FailureLogged(loader), c, 0)
    /\ UNCHANGED <<crawlVars, call, localModels>>

\* pipeline() settles: lines 33-35 when it resolves, lines 36-39 when it throws.
PipelineReturns(c, resolved) ==
    /\ loader.callers[c].pc = "pipeline"
    /\ loader' =
           IF resolved
           THEN Return([loader EXCEPT !.embedder = loader.loads], c, loader.loads)
           ELSE Return(FailureLogged(loader), c, 0)
    /\ UNCHANGED <<crawlVars, call, localModels>>

NextEmbedder ==
    \/ \E c \in Callers, fn \in {"initializeEmbedder", "generateEmbedding"} :
           CallEmbedder(c, fn)
    \/ \E c \in Callers, loaded \in BOOLEAN : TransformersReturns(c, loaded)
    \/ \E c \in Callers, resolved \in BOOLEAN : PipelineReturns(c, resolved)

\* A process that has not crawled: local or on Azure App Service, with
\* Transformers.js already imported by the local model or not yet.
InitEmbedder ==
    /\ websiteCrawlData = [lastCrawl |-> NoStamp, crawlInProgress |-> FALSE,
                           crawledPages |-> 0, errors |-> <<>>]
    /\ documentEmbeddings = <<>>
    /\ documentStore = <<>>
    /\ embedder = FALSE
    /\ timer = "off"
    /\ inv = [t \in Tasks |-> IdleTask]
    /\ localModels = NoLocalModel
    /\ \E azure \in BOOLEAN, available \in BOOLEAN :
           loader = [NotLoading EXCEPT !.isAzureAppService = azure,
                                       !.transformersAvailable = available /\ ~ azure]
    /\ call = NoCall

SpecEmbedder == InitEmbedder /\ [][NextEmbedder]_vars

\* ------------------------------------------------------------------ textUtils

\* a.reduce((sum, val, i) => sum + val * b[i], 0)
RECURSIVE dotProduct(_, _)
dotProduct(a, b) ==
    IF a = <<>> THEN 0
    ELSE a[1] * b[1] + dotProduct(Tail(a), Tail(b))

\* cosineSimilarity(a, b): the quotient dotProduct / (magnitudeA * magnitudeB),
\* kept as its numerator and the square of its denominator, which is the
\* product of the two sums of squares. 0/0 is what JavaScript calls NaN.
cosineSimilarity(a, b) ==
    [dotProduct |-> dotProduct(a, b), squared |-> dotProduct(a, a) * dotProduct(b, b)]

isNaN(x) == x.dotProduct = 0 /\ x.squared = 0

\* The sign of x times its square, scaled by the other number's denominator:
\* x >= y for two quotients that are numbers.
SignedSquare(x) == IF x.dotProduct < 0 THEN 0 - x.dotProduct * x.dotProduct
                   ELSE x.dotProduct * x.dotProduct

AtLeast(x, y) == SignedSquare(x) * y.squared >= SignedSquare(y) * x.squared

\* text.split(/\s+/): the pieces between the runs of whitespace, the empty
\* piece before a leading run and after a trailing one included.
RECURSIVE split(_)
split(text) ==
    IF text = <<>> THEN << <<>> >>
    ELSE LET before == split(SubSeq(text, 1, Len(text) - 1))
             ch == text[Len(text)]
             last == before[Len(before)]
         IN  IF ch # " " THEN [before EXCEPT ![Len(before)] = Append(last, ch)]
             ELSE IF Len(text) > 1 /\ text[Len(text) - 1] = " " THEN before
             ELSE Append(before, <<>>)

\* words.join(' ')
RECURSIVE join(_)
join(words) ==
    IF words = <<>> THEN <<>>
    ELSE IF Len(words) = 1 THEN words[1]
    ELSE words[1] \o <<" ">> \o join(Tail(words))

\* String.prototype.trim
RECURSIVE trim(_)
trim(str) ==
    IF str = <<>> THEN <<>>
    ELSE IF str[1] = " " THEN trim(Tail(str))
    ELSE IF str[Len(str)] = " " THEN trim(SubSeq(str, 1, Len(str) - 1))
    ELSE str

\* words.slice(i, i + chunkSize), with i counted from 0
Window(words, i, chunkSize) ==
    SubSeq(words, i + 1, IF i + chunkSize < Len(words) THEN i + chunkSize ELSE Len(words))

\* The increment of the loop of chunkText, line 8.
StepWholeChunk(chunkSize, overlap) == chunkSize

Step(chunkSize, overlap) == chunkSize - overlap

\* The loop of chunkText from index i on, lines 8-13.
RECURSIVE ChunksFrom(_, _, _, _)
ChunksFrom(words, i, chunkSize, overlap) ==
    IF ~ (i < Len(words)) THEN <<>>
    ELSE LET chunk == join(Window(words, i, chunkSize))
             rest == ChunksFrom(words, i + Step(chunkSize, overlap), chunkSize, overlap)
         IN  IF trim(chunk) # <<>> THEN <<trim(chunk)>> \o rest ELSE rest

\* chunkText(text, chunkSize, overlap), lines 4-16.
chunkText(text, chunkSize, overlap) == ChunksFrom(split(text), 0, chunkSize, overlap)

\* The texts of at most MaxTextLen characters: letters and blanks.
Texts == UNION {[1..n -> {"a", "b", " "}] : n \in 0..MaxTextLen}

\* The ten words a to j, one blank between two of them.
TenWords ==
    <<"a", " ", "b", " ", "c", " ", "d", " ", "e", " ", "f", " ", "g", " ", "h", " ",
      "i", " ", "j">>

\* chunkText is called with a text, a chunk size and a smaller overlap: with
\* overlap >= chunkSize the loop of line 8 does not advance.
InitChunk ==
    /\ websiteCrawlData = [lastCrawl |-> NoStamp, crawlInProgress |-> FALSE,
                           crawledPages |-> 0, errors |-> <<>>]
    /\ documentEmbeddings = <<>>
    /\ documentStore = <<>>
    /\ embedder = FALSE
    /\ timer = "off"
    /\ inv = [t \in Tasks |-> IdleTask]
    /\ localModels = NoLocalModel
    /\ loader = NotLoading
    /\ \E text \in Texts \cup {TenWords}, chunkSize \in 1..MaxChunkSize :
           \E overlap \in 0..(chunkSize - 1) :
               call = [op |-> "chunkText", state |-> "called", text |-> text,
                       chunkSize |-> chunkSize, overlap |-> overlap]

\* It returns.
ChunkText ==
    /\ call.op = "chunkText"
    /\ call.state = "called"
    /\ call' = [state |-> "returned",
                result |-> chunkText(call.text, call.chunkSize, call.overlap)] @@ call
    /\ UNCHANGED <<crawlVars, loader, localModels>>

SpecChunk == InitChunk /\ [][ChunkText]_vars

\* The vectors of n components.
Vectors(n) == [1..n -> (0 - MaxComponent)..MaxComponent]

\* cosineSimilarity(a, b) is called with two vectors of the same length.
InitCosine ==
    /\ websiteCrawlData = [lastCrawl |-> NoStamp, crawlInProgress |-> FALSE,
                           crawledPages |-> 0, errors |-> <<>>]
    /\ documentEmbeddings = <<>>
    /\ documentStore = <<>>
    /\ embedder = FALSE
    /\ timer = "off"
    /\ inv = [t \in Tasks |-> IdleTask]
    /\ localModels = NoLocalModel
    /\ loader = NotLoading
    /\ \E n \in 1..MaxDim : \E a \in Vectors(n), b \in Vectors(n) :
           call = [op |-> "cosineSimilarity", state |-> "called", a |-> a, b |-> b]

\* It returns.
Cosine ==
    /\ call.op = "cosineSimilarity"
    /\ call.state = "called"
    /\ call' = [state |-> "returned", result |-> cosineSimilarity(call.a, call.b)] @@ call
    /\ UNCHANGED <<crawlVars, loader, localModels>>

SpecCosine == InitCosine /\ [][Cosine]_vars

\* ------------------------------------------------------------------ retrieval

\* Texts are sequences of characters.
ChunkTexts == {<<"A", "b">>, <<"b">>}

Messages == {<<"a">>, <<"b", "b">>}

toLowerCase(text) ==
    [i \in 1..Len(text) |->
        IF text[i] = "A" THEN "a" ELSE IF text[i] = "O" THEN "o" ELSE text[i]]

\* String.prototype.includes
includes(text, part) ==
    \E i \in 0..(Len(text) - Len(part)) : SubSeq(text, i + 1, i + Len(part)) = part

\* The vector the loaded embedder returns for a text (generateEmbedding lines
\* 51-52): here the numbers of a's and of b's in it.
Embed(text) ==
    LET low == toLowerCase(text)
    IN  <<Len(SelectSeq(low, LAMBDA ch : ch = "a")),
          Len(SelectSeq(low, LAMBDA ch : ch = "b"))>>

\* The chunk records processWebsitePages and the upload handler store: the
\* embedding field is FALSE for null and TRUE for the vector of the chunk.
ChunkRecords == [type : {"website", "document"}, chunk : ChunkTexts, embedding : BOOLEAN]

\* documentEmbeddings.filter(d => d.type !== 'website') when website content
\* is not wanted.
AllEmbeddings(index, includeWebsiteContent) == index

availableEmbeddings(index, includeWebsiteContent) ==
    IF includeWebsiteContent THEN index ELSE SelectSeq(index, IsNotWebsite)

\* availableEmbeddings.map((docEmb, index) => ({index, similarity, chunk, ...}))
similarities(available, message) ==
    [i \in 1..Len(available) |->
        [index |-> i - 1,
         similarity |-> cosineSimilarity(Embed(message), Embed(available[i].chunk)),
         chunk |-> available[i].chunk,
         type |-> available[i].type]]

\* .sort((a, b) => b.similarity - a.similarity): Array.prototype.sort is
\* stable; a NaN difference counts as a tie.
Ahead(x, y) ==
    /\ ~ isNaN(x.similarity)
    /\ ~ isNaN(y.similarity)
    /\ ~ AtLeast(y.similarity, x.similarity)

RECURSIVE InsertSorted(_, _)
InsertSorted(sorted, x) ==
    IF sorted = <<>> THEN <<x>>
    ELSE IF Ahead(x, sorted[1]) THEN <<x>> \o sorted
    ELSE <<sorted[1]>> \o InsertSorted(Tail(sorted), x)

RECURSIVE sort(_)
sort(list) ==
    IF list = <<>> THEN <<>>
    ELSE InsertSorted(sort(SubSeq(list, 1, Len(list) - 1)), list[Len(list)])

\* .slice(0, n)
slice(list, n) == SubSeq(list, 1, IF n < Len(list) THEN n ELSE Len(list))

\* What a call hands back: it threw, or the chunks it selected.
Threw == [threw |-> TRUE, chunks |-> <<>>]

Selected(chunks) == [threw |-> FALSE, chunks |-> chunks]

\* generateEmbedding throws without an embedder (line 48), and
\* cosineSimilarity throws on b[i] when a record's embedding is null.
VectorsThrow(available, loaded) ==
    \/ ~ loaded
    \/ \E i \in 1..Len(available) : ~ available[i].embedding

\* retrieveRelevantChunks(query, topK), lines 107-126.
retrieveRelevantChunks(index, loaded, query, topK) ==
    IF Len(index) = 0 THEN Selected(<<>>)
    ELSE IF VectorsThrow(index, loaded) THEN Threw
    ELSE Selected(slice(sort(similarities(index, query)), topK))

\* generateLocalResponseWithRAG, lines 131-167: the chunks of the context.
generateLocalResponseWithRAG(index, loaded, message, useRAG, includeWebsiteContent) ==
    LET available == availableEmbeddings(index, includeWebsiteContent)
    IN  IF ~ (useRAG /\ Len(index) > 0) \/ Len(available) = 0 THEN Selected(<<>>)
        ELSE IF VectorsThrow(available, loaded) THEN Threw
        ELSE Selected(slice(sort(similarities(available, message)), 3))

\* Mutant of KeywordChunks: the matching chunks are filled up to three with
\* the first chunks of the available set.
KeywordChunksFilledUp(available, message) ==
    LET messageLower == toLowerCase(message)
        matchingChunks ==
            SelectSeq(available, LAMBDA doc : includes(toLowerCase(doc.chunk), messageLower))
    IN  slice(matchingChunks \o available, 3)

\* Lines 203-220: simple keyword matching, else the first few chunks.
KeywordChunks(available, message) ==
    LET messageLower == toLowerCase(message)
        matchingChunks ==
            slice(SelectSeq(available,
                            LAMBDA doc : includes(toLowerCase(doc.chunk), messageLower)), 3)
    IN  IF Len(matchingChunks) = 0 THEN slice(available, 3) ELSE matchingChunks

\* generateAzureOpenAIResponseWithRAG, lines 185-261: the chunks of the
\* context sent to Azure OpenAI. The keyword branch is taken on Azure App
\* Service only; elsewhere the vector branch needs a loaded embedder, and its
\* try/catch leaves the context empty.
generateAzureOpenAIResponseWithRAG(azure, index, loaded, message, useRAG, include, topK) ==
    LET available == availableEmbeddings(index, include)
    IN  IF ~ (useRAG /\ Len(index) > 0) THEN Selected(<<>>)
        ELSE IF azure
             THEN IF Len(available) > 0 THEN Selected(KeywordChunks(available, message))
                  ELSE Selected(<<>>)
        ELSE IF Len(available) > 0 /\ loaded
             THEN IF VectorsThrow(available, loaded) THEN Selected(<<>>)
                  ELSE Selected(slice(sort(similarities(available, message)), topK))
        ELSE Selected(<<>>)

RagFunctions ==
    {"retrieveRelevantChunks", "generateLocalResponseWithRAG",
     "generateAzureOpenAIResponseWithRAG"}

\* A question arrives: message, useRAG and includeWebsiteContent come with
\* the request, ragTopK from the environment.
Ask(op, message, useRAG, includeWebsiteContent, ragTopK) ==
    /\ call = NoCall
    /\ call' = [op |-> op, state |-> "called", message |-> message, useRAG |-> useRAG,
                includeWebsiteContent |-> includeWebsiteContent, ragTopK |-> ragTopK]
    /\ UNCHANGED <<crawlVars, loader, localModels>>

\* The context of the answer has been put together.
Retrieve ==
    /\ call.op \in RagFunctions
    /\ call.state = "called"
    /\ call' =
         [state |-> "returned"] @@
         [result |->
            CASE call.op = "retrieveRelevantChunks" ->
                   retrieveRelevantChunks(documentEmbeddings, embedder, call.message,
                                          call.ragTopK)
              [] call.op = "generateLocalResponseWithRAG" ->
                   generateLocalResponseWithRAG(documentEmbeddings, embedder, call.message,
                                                call.useRAG, call.includeWebsiteContent)
              [] call.op = "generateAzureOpenAIResponseWithRAG" ->
                   generateAzureOpenAIResponseWithRAG(
                       loader.isAzureAppService, documentEmbeddings, embedder,
                       call.message, call.useRAG, call.includeWebsiteContent,
                       call.ragTopK)] @@
         call
    /\ UNCHANGED <<crawlVars, loader, localModels>>

NextRetrieval ==
    \/ \E op \in RagFunctions, message \in Messages, useRAG \in BOOLEAN,
          includeWebsiteContent \in BOOLEAN, ragTopK \in 1..MaxTopK :
           Ask(op, message, useRAG, includeWebsiteContent, ragTopK)
    \/ Retrieve

\* The indexes of at most MaxChunks records.
Indexes == UNION {[1..n -> ChunkRecords] : n \in 0..MaxChunks}

\* A process whose index has been filled, with its embedder loaded or not;
\* on Azure App Service the embedder is never loaded.
InitRetrieval ==
    /\ websiteCrawlData = [lastCrawl |-> NoStamp, crawlInProgress |-> FALSE,
                           crawledPages |-> 0, errors |-> <<>>]
    /\ documentEmbeddings \in Indexes
    /\ documentStore = <<>>
    /\ timer = "off"
    /\ inv = [t \in Tasks |-> IdleTask]
    /\ localModels = NoLocalModel
    /\ \E azure \in BOOLEAN :
           /\ loader = [NotLoading EXCEPT !.isAzureAppService = azure]
           /\ embedder \in (IF azure THEN {FALSE} ELSE BOOLEAN)
    /\ call = NoCall

SpecRetrieval == InitRetrieval /\ [][NextRetrieval]_vars

\* ---------------------------------------------------- loading the local model

\* The fallback models of initializeLocalModel, lines 63-69, after modelName.
PreferredModels ==
    <<"Xenova/LaMini-Flan-T5-248M",
      "Xenova/distilbert-base-uncased-finetuned-sst-2-english",
      "Xenova/distilgpt2",
      "Xenova/gpt2">>

fallbackModels(modelName) == <<modelName>> \o PreferredModels

\* The names a caller may give: the listed ones and one that is not listed.
ModelNames == {PreferredModels[i] : i \in 1..Len(PreferredModels)} \cup {"Xenova/flan-t5-small"}

\* initializeLocalModel returns value to caller c.
ModelReturn(lm, c, value) ==
    [lm EXCEPT !.callers[c].pc = "done", !.callers[c].result = value]

\* Lines 59-71: the flag is raised and the first pipeline is requested.
StartLoading(lm, c) ==
    LET models == Dedupe(fallbackModels(lm.callers[c].modelName))
    IN  [lm EXCEPT !.modelLoading = TRUE,
                   !.modelError = "none",
                   !.callers[c].models = models,
                   !.callers[c].next = 1,
                   !.callers[c].tried = <<models[1]>>,
                   !.callers[c].pc = "pipeline"]

\* initializeLocalModel(modelName) is called, lines 32-57, up to its first
\* await that leaves the process. The route POST /api/model/initialize calls
\* it with the name of the body and answers with what it returns.
CallInitializeLocalModel(c, modelName) ==
    LET called == [localModels EXCEPT
                       !.callers[c] = [IdleModelCall EXCEPT
                                           !.modelName = modelName,
                                           !.found = localModels.localModel]]
    IN  /\ localModels.callers[c].pc = "idle"
        /\ IF loader.isAzureAppService
           THEN localModels' =
                    ModelReturn([called EXCEPT !.modelError = "not available in Azure App Service"],
                                c, FALSE)
           ELSE IF localModels.localModel # "none" /\ ~ localModels.modelLoading
           THEN localModels' = ModelReturn(called, c, TRUE)
           ELSE IF localModels.modelLoading
           THEN localModels' = ModelReturn(called, c, FALSE)
           ELSE IF ~ loader.transformersAvailable
           THEN localModels' = [called EXCEPT !.callers[c].pc = "transformers"]
           ELSE localModels' = StartLoading(called, c)
        /\ UNCHANGED <<crawlVars, loader, call>>

\* conditionallyLoadTransformers settles, lines 51-57.
ModelTransformersReturns(c, loaded) ==
    /\ localModels.callers[c].pc = "transformers"
    /\ IF loaded
       THEN /\ loader' = [loader EXCEPT !.transformersAvailable = TRUE]
            /\ localModels' = StartLoading(localModels, c)
       ELSE /\ localModels' =
                   ModelReturn([localModels EXCEPT !.modelError = "Transformers.js not available"],
                               c, FALSE)
            /\ UNCHANGED loader
    /\ UNCHANGED <<crawlVars, call>>

\* The catch block of the loop, lines 100-114, after the pipeline of model
\* failed: the call gives up when model is the last entry of fallbackModels,
\* and else goes on with the next model of the list it walks.
AfterFailedLoad(lm, c, model) ==
    LET cl == lm.callers[c]
        all == fallbackModels(cl.modelName)
    IN  IF model = all[Len(all)]
        THEN ModelReturn([lm EXCEPT !.modelLoading = FALSE,
                                    !.modelError = "All model loading attempts failed"],
                         c, FALSE)
        ELSE IF cl.next < Len(cl.models)
        THEN [lm EXCEPT !.callers[c].next = @ + 1,
                        !.callers[c].tried = Append(@, cl.models[cl.next + 1])]
        ELSE ModelReturn([lm EXCEPT !.modelLoading = FALSE,
                                    !.modelError = "No models could be loaded"],
                         c, FALSE)

\* pipeline(task, fallbackModel) settles, lines 80-114.
ModelPipelineReturns(c, resolved) ==
    LET cl == localModels.callers[c]
        model == cl.models[cl.next]
    IN  /\ cl.pc = "pipeline"
        /\ localModels' =
               IF resolved
               THEN ModelReturn([localModels EXCEPT !.localModel = model,
                                                    !.modelLoading = FALSE,
                                                    !.LOCAL_MODEL_NAME = model],
                                c, TRUE)
               ELSE AfterFailedLoad(localModels, c, model)
        /\ UNCHANGED <<crawlVars, loader, call>>

NextModels ==
    \/ \E c \in ModelCallers, modelName \in ModelNames : CallInitializeLocalModel(c, modelName)
    \/ \E c \in ModelCallers, loaded \in BOOLEAN : ModelTransformersReturns(c, loaded)
    \/ \E c \in ModelCallers, resolved \in BOOLEAN : ModelPipelineReturns(c, resolved)

\* A process that has loaded no local model: local or on Azure App Service.
InitModels ==
    /\ websiteCrawlData = [lastCrawl |-> NoStamp, crawlInProgress |-> FALSE,
                           crawledPages |-> 0, errors |-> <<>>]
    /\ documentEmbeddings = <<>>
    /\ documentStore = <<>>
    /\ embedder = FALSE
    /\ timer = "off"
    /\ inv = [t \in Tasks |-> IdleTask]
    /\ \E azure \in BOOLEAN : loader = [NotLoading EXCEPT !.isAzureAppService = azure]
    /\ call = NoCall
    /\ localModels = NoLocalModel

SpecModels == InitModels /\ [][NextModels]_vars

\* ------------------------------------------------------------------------ chat

\* Deployment names of AZURE_OPENAI_DEPLOYMENT.
Deployments ==
    {<<"o", "1", "-", "m", "i", "n", "i">>,
     <<"O", "1">>,
     <<"g", "p", "t", "-", "4">>,
     <<"g", "p", "t", "-", "3", ".", "5">>,
     <<"c", "h", "a", "t">>}

\* The configured RAG_TOP_K: its default.
ragTopK == 3

\* const isO1Model = deployment.toLowerCase().includes('o1')
NeverO1(deployment) == FALSE

isO1Model(deployment) == includes(toLowerCase(deployment), <<"o", "1">>)

\* The user message of generateAzureOpenAIResponse: the question, wrapped
\* with the context when the context is not the empty string.
userMessage(message, context) ==
    IF context # <<>> THEN [context |-> context, question |-> message]
    ELSE [question |-> message]

\* The system message, longer when there is a context.
systemMessage(context) ==
    IF context # <<>> THEN "helpful assistant, use the provided context"
    ELSE "helpful assistant"

\* maxTokens of a standard deployment.
maxTokens(deployment) ==
    IF includes(deployment, <<"g", "p", "t", "-", "4">>) THEN 1500 ELSE 1000

\* The body generateAzureOpenAIResponse gives to chat.completions.create;
\* temperature and top_p in tenths.
requestBody(deployment, message, context) ==
    IF isO1Model(deployment)
    THEN [messages |-> <<[role |-> "user", content |-> userMessage(message, context)]>>,
          max_completion_tokens |-> 2000]
    ELSE [messages |-> <<[role |-> "system", content |-> systemMessage(context)],
                         [role |-> "user", content |-> userMessage(message, context)]>>,
          max_tokens |-> maxTokens(deployment),
          temperature |-> 7,
          top_p |-> 9,
          frequency_penalty |-> 0,
          presence_penalty |-> 0]

\* res.json / res.status().json of the chat route: a response is sent.
RespondTwice(rq, response) ==
    [rq EXCEPT !.state = "done", !.responses = Append(Append(@, response), response)]

Respond(rq, response) ==
    [rq EXCEPT !.state = "done", !.responses = Append(@, response)]

Success(source) == [status |-> 200, source |-> source, error |-> "none"]

Failure(status, error) == [status |-> status, source |-> "none", error |-> error]

\* The Azure OpenAI part of the route, lines 106-183, up to the call of
\* chat.completions.create inside generateAzureOpenAIResponseWithRAG.
UseAzureOpenAI(rq) ==
    IF ~ rq.configured THEN Respond(rq, Failure(500, "Azure OpenAI not configured"))
    ELSE IF ~ rq.client
    THEN Respond(rq, Failure(500, "Azure OpenAI client initialization failed"))
    ELSE LET selected == generateAzureOpenAIResponseWithRAG(
                             loader.isAzureAppService, documentEmbeddings, embedder,
                             rq.message, rq.useRAG, rq.includeWebsiteContent, ragTopK)
             context == [i \in 1..Len(selected.chunks) |-> selected.chunks[i].chunk]
         IN  [rq EXCEPT !.state = "remote",
                        !.calls = Append(@, "remote"),
                        !.requestBody = requestBody(rq.deployment, rq.message, context)]

\* The local part of the route, lines 53-103. localModels.js exports no
\* generateLocalResponseWithRAG (lines 198-206), so the name the route
\* imports from it at line 5 is undefined and the call of line 77 throws a
\* TypeError, which the catch of line 99 takes to the Azure OpenAI part.
UseLocalModel(rq) ==
    IF localModels.localModel = "none"
    THEN Respond(rq, Success("fallback-response"))
    ELSE UseAzureOpenAI([rq EXCEPT !.calls = Append(@, "local"), !.localThrew = TRUE])

\* POST /api/chat, lines 9-183, up to its first await that leaves the process.
PostChat ==
    /\ call.op = "chat"
    /\ call.state = "received"
    /\ call' = IF call.body = "no body"
               THEN Respond(call, Failure(400, "Invalid request body"))
               ELSE IF call.body = "no message"
               THEN Respond(call, Failure(400, "Message is required"))
               ELSE IF call.useLocalModel THEN UseLocalModel(call)
               ELSE UseAzureOpenAI(call)
    /\ UNCHANGED <<crawlVars, loader, localModels>>

\* A second completion request after the first one failed.
RetryAfterRemoteFailure(rq) == [rq EXCEPT !.calls = Append(@, "remote")]

\* The catch blocks of generateAzureOpenAIResponse (lines 571-588) and of the
\* route (lines 174-184): the error is rethrown and answered.
AfterRemoteFailure(rq) == Respond(rq, Failure(500, "Azure OpenAI request failed"))

\* chat.completions.create settles: with a completion, with a response that
\* has no choices, or with an error.
RemoteReturns(outcome) ==
    /\ call.op = "chat"
    /\ call.state = "remote"
    /\ call' = IF outcome = "completion" THEN Respond(call, Success("azure-cloud"))
               ELSE AfterRemoteFailure(call)
    /\ UNCHANGED <<crawlVars, loader, localModels>>

NextChat ==
    \/ PostChat
    \/ \E outcome \in {"completion", "no choices", "error"} : RemoteReturns(outcome)

\* The request bodies: not an object, without a usable message, or with a
\* message and the two flags.
ChatBodies ==
    {[body |-> "no body"], [body |-> "no message"]}
    \cup [body : {"valid"}, message : Messages, useRAG : BOOLEAN,
          includeWebsiteContent : BOOLEAN]

\* What a body lacks is read as undefined.
WithDefaults(body) ==
    body @@ [message |-> <<>>, useRAG |-> TRUE, includeWebsiteContent |-> TRUE]

\* The Azure OpenAI settings of the process: nothing configured; configured
\* with no client created (initializeAzureOpenAI was not called, or failed);
\* configured with the client created.
AzureSettings ==
    {[configured |-> FALSE, client |-> FALSE, deployment |-> <<>>]}
    \cup [configured : {TRUE}, client : BOOLEAN, deployment : Deployments]

\* The indexes of at most one record.
SmallIndexes == {index \in Indexes : Len(index) <= 1}

\* A chat request arrives at a process that runs locally or on Azure App
\* Service, with USE_LOCAL_MODEL set or not, a local model loaded or not, and
\* an index.
InitChat ==
    /\ websiteCrawlData = [lastCrawl |-> NoStamp, crawlInProgress |-> FALSE,
                           crawledPages |-> 0, errors |-> <<>>]
    /\ documentEmbeddings \in SmallIndexes
    /\ documentStore = <<>>
    /\ timer = "off"
    /\ inv = [t \in Tasks |-> IdleTask]
    /\ \E azure \in BOOLEAN :
           /\ loader = [NotLoading EXCEPT !.isAzureAppService = azure]
           /\ embedder \in (IF azure THEN {FALSE} ELSE BOOLEAN)
           /\ \E model \in (IF azure THEN {"none"} ELSE {"none", PreferredModels[3]}) :
                  localModels = [NoLocalModel EXCEPT !.localModel = model]
    /\ \E body \in ChatBodies, settings \in AzureSettings, useLocalModel \in BOOLEAN :
           call = [op |-> "chat", state |-> "received", useLocalModel |-> useLocalModel,
                   calls |-> <<>>, responses |-> <<>>, localThrew |-> FALSE,
                   requestBody |-> <<>>]
                  @@ WithDefaults(body) @@ settings

SpecChat == InitChat /\ [][NextChat]_vars

\* The OpenAI client settles every request it makes: with the completion,
\* or with an error after its timeout and retries.
FairSpecChat == SpecChat /\ WF_vars(NextChat)

\* ------------------------------------------------------- keyword fallback

\* The source labels of the chunk records: the filename of an uploaded
\* document, or title and URL of a page.
SourceLabels == {"notes.txt", "Home (http://site/)"}

\* The records of an index built without embedder: embedding is null.
SourcedRecords ==
    [type : {"website", "document"}, chunk : ChunkTexts, embedding : {FALSE},
     source : SourceLabels]

\* The indexes that hold more chunks than the three a context takes.
SourcedIndexes == UNION {[1..n -> SourcedRecords] : n \in 0..(MaxChunks + 1)}

\* [...new Set(chunks.map(chunk => chunk.source))], lines 215 and 219.
sources(chunks) == Dedupe([i \in 1..Len(chunks) |-> chunks[i].source])

\* generateAzureOpenAIResponseWithRAG on Azure App Service, lines 186-223:
\* the chunks joined into the context, and the sources.
keywordContext(index, message, useRAG, includeWebsiteContent) ==
    LET used == generateAzureOpenAIResponseWithRAG(TRUE, index, FALSE, message, useRAG,
                                                   includeWebsiteContent, ragTopK).chunks
    IN  [chunks |-> used, sources |-> sources(used)]

\* A question arrives at the process on Azure App Service.
AskKeyword(message, useRAG, includeWebsiteContent) ==
    /\ call = NoCall
    /\ call' = [op |-> "keywordContext", state |-> "called", message |-> message,
                useRAG |-> useRAG, includeWebsiteContent |-> includeWebsiteContent]
    /\ UNCHANGED <<crawlVars, loader, localModels>>

\* Context and sources have been put together.
RetrieveKeyword ==
    /\ call.op = "keywordContext"
    /\ call.state = "called"
    /\ call' = [state |-> "returned"] @@
               [result |-> keywordContext(documentEmbeddings, call.message, call.useRAG,
                                          call.includeWebsiteContent)] @@ call
    /\ UNCHANGED <<crawlVars, loader, localModels>>

NextKeyword ==
    \/ \E message \in Messages, useRAG \in BOOLEAN, includeWebsiteContent \in BOOLEAN :
           AskKeyword(message, useRAG, includeWebsiteContent)
    \/ RetrieveKeyword

\* A process on Azure App Service whose index was filled without embedder.
InitKeyword ==
    /\ websiteCrawlData = [lastCrawl |-> NoStamp, crawlInProgress |-> FALSE,
                           crawledPages |-> 0, errors |-> <<>>]
    /\ documentEmbeddings \in SourcedIndexes
    /\ documentStore = <<>>
    /\ embedder = FALSE
    /\ timer = "off"
    /\ inv = [t \in Tasks |-> IdleTask]
    /\ localModels = NoLocalModel
    /\ loader = [NotLoading EXCEPT !.isAzureAppService = TRUE]
    /\ call = NoCall

SpecKeyword == InitKeyword /\ [][NextKeyword]_vars

\* ------------------------------------------------------ processWebsitePages

\* The pages handed over, each by the number of chunks chunkText makes of it.
PageLists == UNION {[1..n -> 0..MaxPageChunks] : n \in 1..MaxProcessPages}

\* The chunks of the pages in the order of the two loops of lines 69-101:
\* pageIndex and chunkIndex of each.
RECURSIVE ChunkOrder(_, _)
ChunkOrder(pages, n) ==
    IF n = 0 THEN <<>>
    ELSE ChunkOrder(pages, n - 1)
         \o [i \in 1..pages[n] |-> [pageIndex |-> n - 1, chunkIndex |-> i - 1]]

\* Lines 59-65 once initializeEmbedder has settled: the throw without
\* embedder, else the loops up to the first await of generateEmbedding.
EnterLoops(c, loaded) ==
    IF ~ loaded THEN [c EXCEPT !.state = "threw"]
    ELSE IF ChunkOrder(c.pages, Len(c.pages)) = <<>> THEN [c EXCEPT !.state = "returned"]
    ELSE [c EXCEPT !.state = "embedding", !.next = 1]

\* Mutant of AfterEmbedding: the error of generateEmbedding is not caught.
AfterEmbeddingRethrows(c, ok) ==
    LET order == ChunkOrder(c.pages, Len(c.pages))
        pushed == IF ok THEN Append(c.processedChunks,
                                    [type |-> "website", embedding |-> TRUE] @@ order[c.next])
                  ELSE c.processedChunks
    IN  IF ~ ok THEN [c EXCEPT !.state = "threw", !.failed = @ \cup {order[c.next]}]
        ELSE IF c.next = Len(order)
        THEN [c EXCEPT !.state = "returned", !.processedChunks = pushed]
        ELSE [c EXCEPT !.next = @ + 1, !.processedChunks = pushed]

\* Lines 84-100 for the chunk awaited: the record is pushed, or the catch
\* logs the error; then the next chunk is awaited, or the chunks are returned.
AfterEmbedding(c, ok) ==
    LET order == ChunkOrder(c.pages, Len(c.pages))
        pushed == IF ok THEN Append(c.processedChunks,
                                    [type |-> "website", embedding |-> TRUE] @@ order[c.next])
                  ELSE c.processedChunks
        logged == IF ok THEN c.failed ELSE c.failed \cup {order[c.next]}
    IN  IF c.next = Len(order)
        THEN [c EXCEPT !.state = "returned", !.processedChunks = pushed, !.failed = logged]
        ELSE [c EXCEPT !.next = @ + 1, !.processedChunks = pushed, !.failed = logged]

\* initializeEmbedder settles (line 60).
InitializeReturns(loaded) ==
    /\ call.op = "processWebsitePages"
    /\ call.state = "initializing"
    /\ embedder' = loaded
    /\ call' = EnterLoops(call, loaded)
    /\ UNCHANGED <<websiteCrawlData, documentEmbeddings, documentStore, timer, inv,
                   loader, localModels>>

\* generateEmbedding of the chunk awaited settles: it resolves or rejects.
EmbeddingReturns(ok) ==
    /\ call.op = "processWebsitePages"
    /\ call.state = "embedding"
    /\ call' = AfterEmbedding(call, ok)
    /\ UNCHANGED <<crawlVars, loader, localModels>>

NextProcess ==
    \/ \E loaded \in BOOLEAN : InitializeReturns(loaded)
    \/ \E ok \in BOOLEAN : EmbeddingReturns(ok)

\* processWebsitePages(pages) has run up to its first await; failed is the
\* history of the chunks whose embedding was rejected.
InitProcess ==
    /\ websiteCrawlData = [lastCrawl |-> NoStamp, crawlInProgress |-> FALSE,
                           crawledPages |-> 0, errors |-> <<>>]
    /\ documentEmbeddings = <<>>
    /\ documentStore = <<>>
    /\ embedder \in BOOLEAN
    /\ timer = "off"
    /\ inv = [t \in Tasks |-> IdleTask]
    /\ localModels = NoLocalModel
    /\ loader = NotLoading
    /\ \E pages \in PageLists :
           LET c == [op |-> "processWebsitePages", state |-> "initializing", pages |-> pages,
                     next |-> 0, processedChunks |-> <<>>, failed |-> {}]
           IN  call = IF embedder THEN EnterLoops(c, TRUE) ELSE c

SpecProcess == InitProcess /\ [][NextProcess]_vars

\* ------------------------------------------------ crawls, embedder and chat

\* The text of the chunk made of the page at url, or of an uploaded document.
PageText(url) == IF url \in {SiteRoot, SiteHome} THEN <<"A", "b">> ELSE <<"b">>

\* The records of the index with the fields the retrieval reads.
Stored(index) ==
    [i \in 1..Len(index) |->
        [type |-> index[i].type, chunk |-> PageText(index[i].url),
         embedding |-> index[i].embedding]]

\* availableEmbeddings.map(... cosineSimilarity(queryEmbedding, docEmb.embedding) ...)
\* calls cosineSimilarity on the records in order, up to the first call
\* that throws: the one on a record whose embedding is null.
RECURSIVE UpToFirstThrow(_)
UpToFirstThrow(available) ==
    IF available = <<>> THEN <<>>
    ELSE IF ~ Head(available).embedding THEN <<Head(available)>>
    ELSE <<Head(available)>> \o UpToFirstThrow(Tail(available))

\* The records cosineSimilarity is called on by generateLocalResponseWithRAG
\* (lines 135-152) and generateAzureOpenAIResponseWithRAG (lines 191, 224-242):
\* the vector path is entered with an embedder only, and outside Azure App
\* Service.
vectorScan(op, azure, index, loaded, useRAG, includeWebsiteContent) ==
    LET available == availableEmbeddings(index, includeWebsiteContent)
    IN  IF /\ useRAG
           /\ Len(index) > 0
           /\ Len(available) > 0
           /\ loaded
           /\ ~ (op = "generateAzureOpenAIResponseWithRAG" /\ azure)
        THEN UpToFirstThrow(available)
        ELSE <<>>

\* initializeEmbedder loads the embedder (lines 30-35): at startup, or when
\* a later call tries again after a failed load.
InitializeEmbedderResolves ==
    /\ ~ embedder
    /\ ~ loader.isAzureAppService
    /\ embedder' = TRUE
    /\ UNCHANGED <<websiteCrawlData, documentEmbeddings, documentStore, timer, inv,
                   loader, call, localModels>>

\* The context of the answer to a chat request has been put together from
\* the index the crawls have left; scanned is the history of the records
\* cosineSimilarity was called on.
RetrieveStored ==
    /\ call.op \in {"generateLocalResponseWithRAG", "generateAzureOpenAIResponseWithRAG"}
    /\ call.state = "called"
    /\ call' =
         [state |-> "returned"] @@
         [scanned |-> vectorScan(call.op, loader.isAzureAppService, Stored(documentEmbeddings),
                                 embedder, call.useRAG, call.includeWebsiteContent)] @@
         [result |->
            IF call.op = "generateLocalResponseWithRAG"
            THEN generateLocalResponseWithRAG(Stored(documentEmbeddings), embedder,
                                              call.message, call.useRAG,
                                              call.includeWebsiteContent)
            ELSE generateAzureOpenAIResponseWithRAG(
                     loader.isAzureAppService, Stored(documentEmbeddings), embedder,
                     call.message, call.useRAG, call.includeWebsiteContent, call.ragTopK)] @@
         call
    /\ UNCHANGED <<crawlVars, loader, localModels>>

\* Crawls, loads of the embedder and one chat request, in any order.
NextIndexAndAsk ==
    \/ Serve
    \/ InitializeEmbedderResolves
    \/ \E op \in {"generateLocalResponseWithRAG", "generateAzureOpenAIResponseWithRAG"},
          message \in Messages, includeWebsiteContent \in BOOLEAN :
           Ask(op, message, TRUE, includeWebsiteContent, ragTopK)
    \/ RetrieveStored

SpecIndexAndAsk == InitNoAutoCrawl /\ [][NextIndexAndAsk]_vars

\* =================================================================== claims

\* Invocation t is inside crawlWebsite: between lines 32 and 112.
Active(t) == inv[t].pc \in {"robots", "fetch", "delay"}

\* Invocation t has returned or thrown.
Ended(t) == inv[t].pc \in {"done", "failed"}

\* A start-crawl route handler runs.
StartRequest == (\E body \in Bodies : PostCrawl(body)) \/ PostAutoCrawl \/ GetAutoCrawl

RECURSIVE SetMax(_)
SetMax(S) ==
    IF S = {} THEN 0
    ELSE LET x == CHOOSE y \in S : TRUE
             m == SetMax(S \ {x})
         IN  IF x > m THEN x ELSE m

\* C1: in every reachable state at most one invocation is inside
\* crawlWebsite, whichever entry points started the crawls.
C1_AtMostOneActiveCrawl == Cardinality({t \in Tasks : Active(t)}) <= 1

\* C2: whenever an invocation is inside crawlWebsite, crawlInProgress is
\* true; no other invocation has set it to false meanwhile.
C2_ActiveCrawlHoldsFlag ==
    \A t \in Tasks : Active(t) => websiteCrawlData.crawlInProgress

\* A step of a start-crawl handler changes nothing that a crawl, the status
\* route or the index can see.
RejectionChangesNothing ==
    (websiteCrawlData.crawlInProgress
        /\ ~ UNCHANGED <<websiteCrawlData, documentEmbeddings, documentStore, inv>>)
    => ~ StartRequest

\* C3 as stated: a start-crawl request handled while crawlInProgress is true
\* is answered 409 or success:false, starts no crawl and leaves CrawlState,
\* the index and every invocation as they were.
C3_RejectedWith409OrSuccessFalse ==
    /\ [](websiteCrawlData.crawlInProgress
            => /\ \A body \in Bodies :
                      PostCrawlStatus(body) = "409 Crawl already in progress"
               /\ AutoCrawlStatus = "200 success: false")
    /\ [][RejectionChangesNothing]_vars

\* C3 as amended: a start-crawl request handled while crawlInProgress is true
\* is answered 409 by POST /crawl, or 400 when its body has no baseUrl, and
\* success:false by the auto-crawl routes; it starts no crawl and leaves
\* CrawlState, the index and every invocation as they were.
C3_RejectedWhileInProgress ==
    /\ [](websiteCrawlData.crawlInProgress
            => /\ \A body \in Bodies :
                      PostCrawlStatus(body) =
                          IF body.baseUrl = NoUrl THEN "400 Base URL is required"
                          ELSE "409 Crawl already in progress"
               /\ AutoCrawlStatus = "200 success: false")
    /\ [][RejectionChangesNothing]_vars

\* A crawl is running, and the requests that arrive now are turned away.
C3_Witness ==
    /\ websiteCrawlData.crawlInProgress
    /\ \E t \in HttpTasks : Active(t) /\ inv[t].crawledPages # <<>>
    /\ \E body \in Bodies : PostCrawlStatus(body) = "409 Crawl already in progress"
    /\ AutoCrawlStatus = "200 success: false"

\* C4: when an invocation of crawlAndIndexWebsite ends, by return or by
\* throw, crawlInProgress is false and lastCrawl is the timestamp that
\* invocation took.
C4_ExitClearsFlagAndStamps ==
    [][ \A t \in Tasks :
          (~ Ended(t) /\ Ended(t)')
          => /\ ~ websiteCrawlData'.crawlInProgress
             /\ websiteCrawlData'.lastCrawl = Stamp(t) ]_vars

\* The maxPages of the crawl that is running, or of the one that ran last.
CurrentMaxPages ==
    IF \E t \in Tasks : Active(t)
    THEN SetMax({inv[t].maxPages : t \in {u \in Tasks : Active(u)}})
    ELSE IF websiteCrawlData.lastCrawl = NoStamp THEN 0
    ELSE inv[websiteCrawlData.lastCrawl[1]].maxPages

\* C6: the page counter of CrawlStatus is at most the maxPages of the crawl
\* that is running or last ran, and no crawl collects more than its maxPages.
C6_CounterWithinMaxPages ==
    /\ websiteCrawlData.crawledPages <= CurrentMaxPages
    /\ \A t \in Tasks : Len(inv[t].crawledPages) <= inv[t].maxPages

\* C7: within one crawl no URL is fetched twice, the seed included when a
\* page links back to it: no two GETs of a crawl name the same URL.
C7_NoUrlFetchedTwice ==
    \A t \in Tasks : \A i, j \in DOMAIN inv[t].fetched :
        i # j => Href(inv[t].fetched[i]) # Href(inv[t].fetched[j])

\* C8: with crawlDelay > 0 the crawl has waited crawlDelay exactly once
\* between the return of a page GET and the next page GET.
C8_DelayBetweenFetches ==
    \A t \in Tasks :
        (inv[t].pc = "fetch" /\ Len(inv[t].fetched) >= 2 /\ inv[t].crawlDelay > 0)
        => inv[t].waited = 1

\* C5: every crawl that has set crawlInProgress eventually leaves its loop,
\* with the frontier empty or maxPages pages collected, and sets
\* crawlInProgress back to false as it does.
C5_CrawlTerminates ==
    /\ \A t \in Tasks : Active(t) ~> ~ Active(t)
    /\ [][ \A t \in Tasks :
             (Active(t) /\ ~ Active(t)')
             => /\ ~ websiteCrawlData'.crawlInProgress
                /\ \/ inv'[t].urlsToVisit = <<>>
                   \/ Len(inv'[t].crawledPages) = inv'[t].maxPages ]_vars

\* A crawl has run to its end and returned pages.
C5_Witness ==
    \E t \in Tasks :
        /\ inv[t].pc = "done"
        /\ inv[t].crawledPages # <<>>
        /\ ~ websiteCrawlData.crawlInProgress

\* C9: a page GET that fails appends exactly one {url, error} entry for that
\* URL to websiteCrawlData.errors, keeps the pages collected so far, and the
\* crawl goes on: the next URL of the frontier that is neither visited nor
\* disallowed is requested, and without such a URL the crawl ends normally.
C9_FetchErrorRecordedCrawlGoesOn ==
    [][ \A t \in Tasks :
          FetchReturns(t, "error")
          => LET r == inv[t]
                 Open(u) == u \notin r.visitedUrls /\ (r.robotsTxt => isAllowed(u))
                 rest == SelectSeq(r.urlsToVisit, Open)
             IN  /\ websiteCrawlData'.errors =
                        Append(websiteCrawlData.errors,
                               [url |-> r.currentUrl, error |-> "request failed"])
                 /\ inv'[t].crawledPages = r.crawledPages
                 /\ IF rest # <<>>
                    THEN inv'[t].pc = "fetch" /\ inv'[t].currentUrl = Head(rest)
                    ELSE inv'[t].pc \in {"done", "embed"} ]_vars

\* After a failed GET the crawl requests another URL, the failure is in
\* errors and the page collected before is still held.
C9_Witness ==
    \E t \in Tasks :
        /\ inv[t].pc = "fetch"
        /\ Len(inv[t].fetched) >= 2
        /\ inv[t].crawledPages # <<>>
        /\ \E i \in DOMAIN websiteCrawlData.errors :
               websiteCrawlData.errors[i].url = inv[t].fetched[Len(inv[t].fetched) - 1]

\* The GETs of the robots.txt URL a crawl has issued: for its rules, and as
\* a page.
RobotsGets(t) ==
    inv[t].robotsLoads
    + Cardinality({i \in DOMAIN inv[t].fetched : inv[t].fetched[i] = RobotsTxtUrl})

\* While robots.txt is loaded, no disallowed URL has been requested or
\* counted as a page.
DisallowedNotFetched(t) ==
    inv[t].robotsTxt
    => /\ \A i \in DOMAIN inv[t].fetched : isAllowed(inv[t].fetched[i])
       /\ \A i \in DOMAIN inv[t].crawledPages : isAllowed(inv[t].crawledPages[i])

\* Every entry added to errors is for the URL a crawl was requesting, which
\* its robots.txt allows.
ErrorsOnlyForAllowed ==
    Len(websiteCrawlData'.errors) > Len(websiteCrawlData.errors)
    => \E t \in Tasks :
          /\ inv[t].pc = "fetch"
          /\ inv[t].robotsTxt => isAllowed(inv[t].currentUrl)
          /\ websiteCrawlData'.errors =
                 Append(websiteCrawlData.errors,
                        [url |-> inv[t].currentUrl, error |-> "request failed"])

\* C10 as stated: with robots.txt loaded a disallowed URL is never fetched,
\* adds no errors entry and is no crawled page; the robots.txt URL is
\* requested at most once per crawl.
C10_RobotsRequestedOnce ==
    /\ [](\A t \in Tasks : DisallowedNotFetched(t) /\ RobotsGets(t) <= 1)
    /\ [][ErrorsOnlyForAllowed]_vars

\* C10 as amended: with robots.txt loaded a disallowed URL is never fetched,
\* adds no errors entry and is no crawled page; robots.txt is requested for
\* its rules at most once per crawl (its URL can be fetched again as a page
\* when it is the seed or a fetched page links to it).
C10_RobotsRespected ==
    /\ [](\A t \in Tasks : DisallowedNotFetched(t) /\ inv[t].robotsLoads <= 1)
    /\ [][ErrorsOnlyForAllowed]_vars

\* With robots.txt loaded the crawl has passed over the disallowed page and
\* requests the next URL.
C10_Witness ==
    \E t \in Tasks :
        /\ inv[t].robotsTxt
        /\ inv[t].pc = "fetch"
        /\ PageA \in inv[t].visitedUrls
        /\ \A i \in DOMAIN inv[t].fetched : inv[t].fetched[i] # PageA

\* --------------------------------------------------------- claims: the index

IsWebsite(d) == d.type = "website"

\* The URLs of the website chunks of an index, in order.
WebsiteUrls(index) ==
    LET w == SelectSeq(index, IsWebsite) IN [i \in 1..Len(w) |-> w[i].url]

\* Invocation t completes without error in this step.
Completes(t) == inv[t].pc \notin {"idle", "done", "failed"} /\ inv'[t].pc = "done"

\* C11: when a crawl-and-index invocation completes without error, the
\* website chunks of the index are exactly the chunks of the pages that
\* invocation returned, none of an earlier crawl, also when it returned no page.
C11_WebsiteChunksAreThisCrawls ==
    [][ \A t \in Tasks :
          Completes(t) => WebsiteUrls(documentEmbeddings') = inv'[t].crawledPages ]_vars

\* The document-kind chunks of an index, in order.
DocumentChunks(index) == SelectSeq(index, IsNotWebsite)

\* C12: no step of a website crawl-and-index changes the document-kind
\* chunks of the index: a step that changes their number, order or content
\* is the upload of a document, also when the index was replaced while the
\* crawl awaited its embeddings.
C12_DocumentChunksUntouched ==
    [][ DocumentChunks(documentEmbeddings') # DocumentChunks(documentEmbeddings)
        => UploadDocument ]_vars

C14_SingleFlight ==
    \A c \in Callers : \A d \in loader.callers[c].during :
        /\ ~ loader.callers[c].loaded
        /\ (loader.callers[c].pc = "done" /\ loader.callers[d].pc = "done")
               => loader.callers[c].result = loader.callers[d].result

\* C15: once an initialisation of the embedder has failed, a later call of
\* initializeEmbedder or generateEmbedding starts no load of the encoder and
\* finds no embedder.
C15_NoLoadAfterFailure ==
    \A c \in Callers :
        loader.callers[c].late =>
            /\ ~ loader.callers[c].loaded
            /\ loader.callers[c].pc = "done" => loader.callers[c].result = 0

\* A question has been answered by function op.
Answered(op) == call.op = op /\ call.state = "returned"

\* C16: when RAG is requested, no embedder is loaded and the index holds a
\* chunk the request may use, the context sent to the remote backend is not
\* empty and is the keyword selection: the chunks containing the message, or
\* the first up to 3 chunks when none does. On Azure App Service or not.
C16_KeywordFallbackEverywhere ==
    LET available == availableEmbeddings(documentEmbeddings, call.includeWebsiteContent)
    IN  (/\ Answered("generateAzureOpenAIResponseWithRAG")
         /\ call.useRAG
         /\ ~ embedder
         /\ Len(available) > 0)
        => /\ ~ call.result.threw
           /\ call.result.chunks # <<>>
           /\ call.result.chunks = KeywordChunks(available, call.message)

\* The records a retrieval may choose from, and how many it may return.
Eligible ==
    IF call.op = "retrieveRelevantChunks" THEN documentEmbeddings
    ELSE availableEmbeddings(documentEmbeddings, call.includeWebsiteContent)

\* The call compared vectors: it is one of the three retrievals, it had an
\* embedder and every eligible record had a vector.
VectorRetrieval ==
    /\ call.op \in RagFunctions
    /\ call.state = "returned"
    /\ call.useRAG \/ call.op = "retrieveRelevantChunks"
    /\ ~ loader.isAzureAppService
    /\ embedder
    /\ \A i \in 1..Len(Eligible) : Eligible[i].embedding

\* C17: a vector retrieval returns at most topK results, in order of
\* non-increasing similarity, each of them a different chunk of the eligible
\* records; all of them when they are fewer than topK.
C17_AtMostTopKSortedFromIndex ==
    VectorRetrieval =>
        LET chunks == call.result.chunks
        IN  /\ ~ call.result.threw
            /\ Len(chunks) <= call.ragTopK
            /\ Len(Eligible) <= call.ragTopK => Len(chunks) = Len(Eligible)
            /\ \A i \in 1..(Len(chunks) - 1) :
                   AtLeast(chunks[i].similarity, chunks[i + 1].similarity)
            /\ \A i \in 1..Len(chunks) :
                   /\ chunks[i].index + 1 \in 1..Len(Eligible)
                   /\ chunks[i].chunk = Eligible[chunks[i].index + 1].chunk
            /\ \A i, j \in 1..Len(chunks) : chunks[i].index = chunks[j].index => i = j

\* C18: cosineSimilarity returns the number 0 when one of its arguments has
\* magnitude zero: it does not divide by zero and does not return NaN.
C18_ZeroVectorGivesZero ==
    (/\ Answered("cosineSimilarity")
     /\ dotProduct(call.a, call.a) = 0 \/ dotProduct(call.b, call.b) = 0)
    => /\ ~ isNaN(call.result)
       /\ call.result.squared # 0
       /\ call.result.dotProduct = 0

\* C19: chunkText of the text "a b c d e f g h i j" with size 4 and overlap 1
\* returns the three chunks "a b c d", "d e f g", "g h i j" and nothing else.
C19_TenWordsGiveThreeChunks ==
    (/\ Answered("chunkText")
     /\ call.text = TenWords
     /\ call.chunkSize = 4
     /\ call.overlap = 1)
    => call.result = << <<"a", " ", "b", " ", "c", " ", "d">>,
                        <<"d", " ", "e", " ", "f", " ", "g">>,
                        <<"g", " ", "h", " ", "i", " ", "j">> >>

\* The words of a string: its pieces that are not empty.
WordsOf(str) == SelectSeq(split(str), LAMBDA word : word # <<>>)

\* The words of a chunk after its first n words.
WithoutFirst(words, n) == SubSeq(words, n + 1, Len(words))

\* The first chunk's words, then each later chunk's words after its first
\* overlap words.
RECURSIVE Rejoined(_, _)
Rejoined(chunks, overlap) ==
    IF chunks = <<>> THEN <<>>
    ELSE IF Len(chunks) = 1 THEN WordsOf(chunks[1])
    ELSE Rejoined(SubSeq(chunks, 1, Len(chunks) - 1), overlap)
         \o WithoutFirst(WordsOf(chunks[Len(chunks)]), overlap)

\* C20: for 0 <= overlap < size, every chunk chunkText returns has at most
\* size words, and the first chunk followed by every later chunk without its
\* first overlap words is the word sequence of the text.
C20_ChunksBoundedAndRejoin ==
    Answered("chunkText") =>
        /\ \A i \in 1..Len(call.result) : Len(WordsOf(call.result[i])) <= call.chunkSize
        /\ Rejoined(call.result, call.overlap) = WordsOf(call.text)

\* chunkText has returned three chunks or more that overlap, for a text that
\* begins with a blank.
C20_Witness ==
    /\ Answered("chunkText")
    /\ call.overlap > 0
    /\ Len(call.result) >= 3
    /\ call.text[1] = " "

\* The first n words of a chunk, and its last n words.
FirstWords(words, n) == SubSeq(words, 1, IF n < Len(words) THEN n ELSE Len(words))

LastWords(words, n) == SubSeq(words, IF n < Len(words) THEN Len(words) - n + 1 ELSE 1, Len(words))

\* C21: for 0 <= overlap < size, two adjacent chunks of chunkText share
\* exactly overlap words: the last overlap words of the earlier chunk are the
\* first overlap words of the later one, and both have that many; the final
\* chunk included.
C21_AdjacentChunksShareOverlap ==
    Answered("chunkText") =>
        \A i \in 1..(Len(call.result) - 1) :
            LET earlier == WordsOf(call.result[i])
                later == WordsOf(call.result[i + 1])
            IN  /\ Len(earlier) >= call.overlap
                /\ Len(later) >= call.overlap
                /\ LastWords(earlier, call.overlap) = FirstWords(later, call.overlap)

\* The models that call c of initializeLocalModel has to try, in order.
DistinctModels(c) == Dedupe(fallbackModels(localModels.callers[c].modelName))

\* C27: a call of initializeLocalModel(M) that starts loading tries M first
\* and then the other listed models in order; it returns success as soon as
\* one of them loads, and failure only when every distinct model of its list
\* has been tried; whatever M is.
C27_FailureOnlyAfterWholeList ==
    \A c \in ModelCallers :
        LET cl == localModels.callers[c]
        IN  (cl.pc = "done" /\ cl.tried # <<>>) =>
                /\ Len(cl.tried) <= Len(DistinctModels(c))
                /\ cl.tried = SubSeq(DistinctModels(c), 1, Len(cl.tried))
                /\ ~ cl.result => cl.tried = DistinctModels(c)

\* The route POST /api/model/initialize answers call c: success naming the
\* model of the request.
AnswersSuccess(c) ==
    /\ localModels.callers[c].pc # "done"
    /\ localModels'.callers[c].pc = "done"
    /\ localModels'.callers[c].result

\* C28: when POST /api/model/initialize with model M, issued while another
\* local model is loaded, answers success naming M, the local model is M.
C28_InitializeSwitchesModel ==
    [][\A c \in ModelCallers :
           (/\ AnswersSuccess(c)
            /\ localModels'.callers[c].found \notin {"none", localModels'.callers[c].modelName})
           => localModels'.localModel = localModels'.callers[c].modelName]_vars

\* A chat request with a valid body has been answered.
ChatAnswered == call.op = "chat" /\ call.state = "done" /\ call.body = "valid"

\* The response sent to an answered chat request.
ChatResponse == call.responses[Len(call.responses)]

\* C22: a chat request that arrives when USE_LOCAL_MODEL is true and no local
\* model is loaded is dispatched to the remote backend: its response is the
\* remote answer or an error of the remote part, not a canned reply made
\* without calling a backend.
C22_NoCannedReplyWithoutBackend ==
    (ChatAnswered /\ call.useLocalModel /\ localModels.localModel = "none")
    => ChatResponse.source # "fallback-response"

\* C23: a chat request whose local inference threw is dispatched to the
\* remote backend, unless that is not configured; it gets an error only when
\* the remote backend is not configured or has failed too.
C23_LocalErrorFallsBackToRemote ==
    (ChatAnswered /\ call.localThrew)
    => /\ call.configured => call.calls = <<"local", "remote">>
       /\ ChatResponse.status # 200
              => \/ ~ call.configured
                 \/ ChatResponse.error = "Azure OpenAI request failed"

\* C24: a chat request calls local inference at most once and the remote
\* completion at most once, never the local one after the remote one; after
\* a remote failure it is over, with no more backend call.
C24_AtMostOneCallPerBackend ==
    call.op = "chat" =>
        /\ call.calls \in {<<>>, <<"local">>, <<"remote">>, <<"local", "remote">>}
        /\ \A i \in 1..Len(call.responses) :
               call.responses[i].error = "Azure OpenAI request failed"
                   => /\ call.state = "done"
                      /\ call.calls[Len(call.calls)] = "remote"

\* A chat request went to the local model, then to the remote backend, which
\* failed.
C24_Witness ==
    /\ call.op = "chat"
    /\ call.state = "done"
    /\ call.calls = <<"local", "remote">>
    /\ ChatResponse.error = "Azure OpenAI request failed"

\* The errors a chat request with a valid body can be answered with.
ChatErrors ==
    {"Azure OpenAI not configured", "Azure OpenAI client initialization failed",
     "Azure OpenAI request failed", "Internal server error"}

\* A response is a success with text or a structured error.
WellFormed(response, body) ==
    \/ response.status = 200 /\ response.error = "none" /\ response.source # "none"
    \/ /\ response.status = 500
       /\ response.error \in ChatErrors
       /\ body = "valid"
    \/ /\ response.status = 400
       /\ response.error \in {"Invalid request body", "Message is required"}
       /\ body # "valid"

\* C25: every chat request gets exactly one response, a success with text or
\* a structured JSON error: never two, none while it is being handled, and
\* in the end one.
C25_ExactlyOneResponse ==
    /\ [](call.op = "chat" =>
            /\ Len(call.responses) = (IF call.state = "done" THEN 1 ELSE 0)
            /\ \A i \in 1..Len(call.responses) : WellFormed(call.responses[i], call.body))
    /\ <>(call.op = "chat" /\ call.state = "done")

\* A chat request has been answered with the error of a failed remote call.
C25_Witness ==
    /\ ChatAnswered
    /\ Len(call.responses) = 1
    /\ ChatResponse.error = "Azure OpenAI request failed"
    /\ call.calls = <<"remote">>

\* The deployment name contains "o1", in lower or upper case.
ContainsO1(deployment) ==
    \E i \in 1..(Len(deployment) - 1) :
        deployment[i] \in {"o", "O"} /\ deployment[i + 1] = "1"

\* The context the request to the remote backend is built with.
ChatContext ==
    LET selected == generateAzureOpenAIResponseWithRAG(
                        loader.isAzureAppService, documentEmbeddings, embedder,
                        call.message, call.useRAG, call.includeWebsiteContent, ragTopK)
    IN  [i \in 1..Len(selected.chunks) |-> selected.chunks[i].chunk]

\* The roles of the messages of a request body, in order.
Roles(body) == [i \in 1..Len(body.messages) |-> body.messages[i].role]

\* C26: for a deployment whose name contains "o1" the outbound request has
\* one message, of the user, max_completion_tokens and no sampling field;
\* for any other deployment it has a system and a user message, max_tokens
\* and the sampling fields. A context, when there is one, is in the user
\* message.
C26_RequestShapeByDeployment ==
    (call.op = "chat" /\ call.requestBody # <<>>) =>
        LET body == call.requestBody
            user == body.messages[Len(body.messages)]
        IN  /\ IF ContainsO1(call.deployment)
               THEN /\ DOMAIN body = {"messages", "max_completion_tokens"}
                    /\ Roles(body) = <<"user">>
               ELSE /\ DOMAIN body = {"messages", "max_tokens", "temperature", "top_p",
                                      "frequency_penalty", "presence_penalty"}
                    /\ Roles(body) = <<"system", "user">>
            /\ user.content.question = call.message
            /\ ChatContext # <<>> =>
                   /\ "context" \in DOMAIN user.content
                   /\ user.content.context = ChatContext

\* A request with a context has been sent to an o1 deployment.
C26_Witness ==
    /\ call.op = "chat"
    /\ call.state = "remote"
    /\ ContainsO1(call.deployment)
    /\ ChatContext # <<>>
    /\ call.requestBody.messages[1].content.context = ChatContext

\* The call put a context together for a request that excludes website
\* content.
WithoutWebsiteContent ==
    /\ call.op \in {"generateLocalResponseWithRAG", "generateAzureOpenAIResponseWithRAG"}
    /\ call.state = "returned"
    /\ ~ call.includeWebsiteContent

\* C29: when includeWebsiteContent is false, none of the chunks the context
\* and the sources are made of is a website chunk, on the vector paths of the
\* local and the remote backend and on the keyword path.
C29_NoWebsiteChunkWhenExcluded ==
    WithoutWebsiteContent =>
        \A i \in 1..Len(call.result.chunks) : call.result.chunks[i].type # "website"

\* A context was made of document chunks only, from an index that holds a
\* website chunk as well.
C29_Witness ==
    /\ WithoutWebsiteContent
    /\ call.result.chunks # <<>>
    /\ \E i \in 1..Len(documentEmbeddings) : documentEmbeddings[i].type = "website"

\* crawlWebsite of invocation t returns in this step.
LeavesCrawl(t) ==
    /\ inv[t].pc \in {"idle", "robots", "fetch", "delay"}
    /\ inv'[t].pc \notin {"idle", "robots", "fetch", "delay"}

MatchingPositions(available, message) ==
    {i \in 1..Len(available) :
        includes(toLowerCase(available[i].chunk), toLowerCase(message))}

\* The chunks are those at the first up to 3 positions of the set, in order.
FirstThreeOf(chunks, available, positions) ==
    /\ Len(chunks) = (IF Cardinality(positions) < 3 THEN Cardinality(positions) ELSE 3)
    /\ \E at \in [1..Len(chunks) -> positions] :
          /\ \A i \in 1..Len(chunks) : chunks[i] = available[at[i]]
          /\ \A i \in 1..Len(chunks) :
                Cardinality({p \in positions : p < at[i]}) = i - 1

\* C31: the keyword context is made of the first up to 3 chunks, in index
\* order, that contain the message; when none does, of the first up to 3
\* chunks of the available set; never of both kinds; and the sources are the
\* source labels of the chunks used, each once.
C31_KeywordContextAndSources ==
    (call.op = "keywordContext" /\ call.state = "returned" /\ call.useRAG) =>
        LET available == availableEmbeddings(documentEmbeddings, call.includeWebsiteContent)
            matching == MatchingPositions(available, call.message)
            chunks == call.result.chunks
            labels == call.result.sources
        IN  /\ IF matching # {} THEN FirstThreeOf(chunks, available, matching)
               ELSE FirstThreeOf(chunks, available, 1..Len(available))
            /\ {labels[i] : i \in 1..Len(labels)} = {chunks[i].source : i \in 1..Len(chunks)}
            /\ \A i, j \in 1..Len(labels) : labels[i] = labels[j] => i = j

\* The context was made of the three chunks that contain the message, past a
\* chunk that does not, and two of them have the same source.
C31_Witness ==
    /\ call.op = "keywordContext"
    /\ call.state = "returned"
    /\ Len(documentEmbeddings) = 4
    /\ Cardinality(MatchingPositions(documentEmbeddings, call.message)) = 3
    /\ 1 \notin MatchingPositions(documentEmbeddings, call.message)
    /\ Len(call.result.chunks) = 3
    /\ Len(call.result.sources) = 2

\* Invocation t is inside crawlWebsite, waiting for a response or a timer.
Crawling(t) == inv[t].pc \in {"robots", "fetch", "delay"}

\* C32: while a crawl with includeExternalLinks false runs, every URL on its
\* frontier and every URL it has requested has the hostname of its seed URL.
C32_FrontierStaysOnSeedHost ==
    \A t \in Tasks :
        (Crawling(t) /\ ~ inv[t].includeExternalLinks) =>
            /\ \A i \in 1..Len(inv[t].urlsToVisit) :
                  Hostname(inv[t].urlsToVisit[i]) = Hostname(inv[t].baseUrl)
            /\ \A i \in 1..Len(inv[t].fetched) :
                  Hostname(inv[t].fetched[i]) = Hostname(inv[t].baseUrl)

\* A crawl has taken the links of the home page, which links to another
\* host, and requests the next URL of its frontier.
C32_Witness ==
    \E t \in Tasks :
        /\ inv[t].pc = "fetch"
        /\ ~ inv[t].includeExternalLinks
        /\ Len(inv[t].fetched) = 2
        /\ \E i \in 1..Len(Anchors(inv[t].fetched[1])) :
              Hostname(Resolve(Anchors(inv[t].fetched[1])[i], inv[t].fetched[1]))
                  # Hostname(inv[t].baseUrl)
        /\ inv[t].urlsToVisit # <<>>

\* The URLs of invocation t that have left the frontier, in the order in
\* which they were put on it.
Dequeued(t) == SubSeq(inv[t].enqueued, 1, Len(inv[t].enqueued) - Len(inv[t].urlsToVisit))

\* C33: the frontier is first-in first-out. It holds the URLs put on it last,
\* in the order in which they were put, and the URLs requested so far were
\* requested in the order in which they were put on the frontier: a URL found
\* on an earlier page is requested before one first found on a later page.
C33_BreadthFirst ==
    \A t \in Tasks :
        Crawling(t) =>
            LET q == inv[t].enqueued
                f == inv[t].fetched
            IN  /\ Len(inv[t].urlsToVisit) <= Len(q)
                /\ Dequeued(t) \o inv[t].urlsToVisit = q
                /\ \A i \in 1..Len(f) :
                      \E a \in 1..Len(Dequeued(t)) :
                          /\ q[a] = f[i]
                          /\ \A j \in (i + 1)..Len(f) :
                                \E b \in (a + 1)..Len(Dequeued(t)) : q[b] = f[j]

\* The file /b, found on the page /a, is requested after the home page, which
\* was found on the seed page and requested after /a.
C33_Witness ==
    \E t \in Tasks :
        /\ inv[t].pc = "fetch"
        /\ inv[t].currentUrl = PageB
        /\ \E i, j \in 1..Len(inv[t].fetched) :
              /\ i < j
              /\ inv[t].fetched[i] = PageA
              /\ inv[t].fetched[j] = SiteHome

\* C34: processWebsitePages throws only when no embedder could be loaded,
\* and what it returns are the records of all the chunks whose embedding did
\* not fail, in the order of the pages and of their chunks, each with its
\* embedding: a failure drops that one chunk and no other.
C34_FailedChunkDropsOnlyItself ==
    (call.op = "processWebsitePages" /\ call.state \in {"returned", "threw"}) =>
        LET order == ChunkOrder(call.pages, Len(call.pages))
            kept == SelectSeq(order, LAMBDA ch : ch \notin call.failed)
            done == call.processedChunks
        IN  /\ call.state = "threw" => ~ embedder /\ call.failed = {}
            /\ call.state = "returned" =>
                  /\ Len(done) = Len(kept)
                  /\ \A i \in 1..Len(kept) :
                        /\ done[i].pageIndex = kept[i].pageIndex
                        /\ done[i].chunkIndex = kept[i].chunkIndex
                        /\ done[i].type = "website"
                        /\ done[i].embedding

\* The embedding of one chunk failed, and chunks before it and after it, of
\* its page and of another page, were returned.
C34_Witness ==
    /\ call.op = "processWebsitePages"
    /\ call.state = "returned"
    /\ \E f \in call.failed :
          /\ call.failed = {f}
          /\ \E i, j, k \in 1..Len(call.processedChunks) :
                LET done == call.processedChunks
                IN  /\ done[i].pageIndex = f.pageIndex /\ done[i].chunkIndex < f.chunkIndex
                    /\ done[j].pageIndex = f.pageIndex /\ done[j].chunkIndex > f.chunkIndex
                    /\ done[k].pageIndex # f.pageIndex

\* Invocation t has left crawlWebsite with pages and awaits
\* processWebsitePages: its chunks are still to be written to the index.
AwaitsIndexing(t) == inv[t].pc = "embed"

\* C35: while an invocation has finished fetching and has not yet written
\* its chunks to the index, crawlInProgress is true, so that the status
\* route reports the crawl as running and the start routes turn requests away.
C35_FlagHeldUntilIndexed ==
    \A t \in Tasks : AwaitsIndexing(t) => websiteCrawlData.crawlInProgress

\* C36: whatever crawls, loads of the embedder and chat requests came
\* before, every record that cosineSimilarity was called on while a context
\* was put together carries an embedding.
C36_NoCosineOnMissingEmbedding ==
    (call.op \in {"generateLocalResponseWithRAG", "generateAzureOpenAIResponseWithRAG"}
        /\ call.state = "returned")
    => \A i \in 1..Len(call.scanned) : call.scanned[i].embedding

\* The website-type entries of the document store.
WebsiteEntries == SelectSeq(documentStore, LAMBDA doc : doc.type = "website")

\* C37: once a crawl that returned pages has completed, the document store
\* holds exactly one website-type entry, and its chunks field is the number
\* of website chunks in the index.
C37_OneWebsiteEntry ==
    (\E t \in Tasks : inv[t].pc = "done" /\ inv[t].crawledPages # <<>>)
    => /\ Len(WebsiteEntries) = 1
       /\ WebsiteEntries[1].chunks = Len(SelectSeq(documentEmbeddings, IsWebsite))

\* The calls of initializeLocalModel that await a pipeline.
LoadingCalls == {c \in ModelCallers : localModels.callers[c].pc = "pipeline"}

\* C38: at most one call of initializeLocalModel awaits a pipeline at any
\* time, whatever the interleaving of the calls, and modelLoading is false
\* whenever no call is under way.
C38_OneModelLoadInFlight ==
    /\ Cardinality(LoadingCalls) <= 1
    /\ (\A c \in ModelCallers : localModels.callers[c].pc \in {"idle", "done"})
           => ~ localModels.modelLoading

\* The locals with which invocation t enters the loop head next: after
\* robots.txt was requested, after the response to the GET of currentUrl or
\* its failure, after the delay.
LoopEntries(t) ==
    CASE inv[t].pc = "robots" -> {[inv[t] EXCEPT !.robotsTxt = loaded] : loaded \in BOOLEAN}
      [] inv[t].pc = "fetch" ->
            {IF outcome = "error" THEN inv[t] ELSE AfterResponse(inv[t], outcome) :
                outcome \in Outcomes(inv[t].currentUrl)}
      [] inv[t].pc = "delay" -> {inv[t]}
      [] OTHER -> {}

\* The locals at the start of every iteration that follows in the same turn:
\* the iterations that end in continue lead to the next one at once.
RECURSIVE LoopHeads(_)
LoopHeads(r) ==
    IF ~ LoopGoesOn(r.urlsToVisit, r.crawledPages, r.maxPages) THEN {r}
    ELSE LET currentUrl == Head(r.urlsToVisit)
             shifted == [r EXCEPT !.urlsToVisit = Tail(r.urlsToVisit)]
             marked == [shifted EXCEPT !.visitedUrls = MarkVisited(r.visitedUrls, currentUrl)]
         IN  IF currentUrl \in r.visitedUrls THEN {r} \cup LoopHeads(shifted)
             ELSE IF RobotsSkips(r.robotsTxt, currentUrl) THEN {r} \cup LoopHeads(marked)
             ELSE {r}

\* The frontier names no URL twice and no URL of the visited set.
FrontierUnseen(r) ==
    /\ \A i, j \in 1..Len(r.urlsToVisit) :
          i # j => Href(r.urlsToVisit[i]) # Href(r.urlsToVisit[j])
    /\ \A i \in 1..Len(r.urlsToVisit) :
          \A v \in r.visitedUrls : Href(r.urlsToVisit[i]) # Href(v)

\* C39: at the start of every iteration of the crawl loop the frontier holds
\* no URL twice and no URL that has been visited.
C39_FrontierHoldsUnseenUrls ==
    \A t \in Tasks : \A r \in LoopEntries(t) : \A h \in LoopHeads(r) : FrontierUnseen(h)

====
